---- MODULE Spec2Model ----
(***************************************************************************)
(* The guess-the-number client/server protocol of src/char_09/item_76.py,  *)
(* in its thread-based (ServerSession, ClientSession) and coroutine-based  *)
(* (AsyncServerSession, AsyncClientSession) implementations.               *)
(*                                                                         *)
(* A Python str is modelled as a sequence of chunks: a chunk is a digit,   *)
(* "-", " ", "\n", or a whole word such as "NUMBER" that is never cut.     *)
(* None is the empty tuple and a set value v is <<v>>.                     *)
(***************************************************************************)
EXTENDS Integers, Sequences, FiniteSets, TLC

\* ------------------------------------------------------------ bounds

\* Numbers of the server-session and report_outcome specifications: 1..MaxVal.
MaxVal == 3

\* Commands one server session processes in ServerSpec.
MaxCmds == 5

\* Calls of report_outcome on one client session in ReportSpec.
MaxCalls == 4

\* Bounds and secrets of the games of GameSpec, besides those of run_client:
\* 1..GameMax.
GameMax == 3

\* Rejected random.randint draws modelled before the accepted one.
MaxSpin == 1

\* ------------------------------------------------------------ values

None == <<>>

Some(v) == <<v>>

WARMER == <<"Warmer">>

COLDER == <<"Colder">>

SAME == <<"Same">>

UNSURE == <<"Unsure">>

CORRECT == <<"Correct">>

Impl == {"thread", "async"}

\* ------------------------------------------------------------ str, int

DigitChars == <<"0", "1", "2", "3", "4", "5", "6", "7", "8", "9">>

IsDigit(c) == \E d \in 1..10 : DigitChars[d] = c

DigitVal(c) == (CHOOSE d \in 1..10 : DigitChars[d] = c) - 1

RECURSIVE Digits(_)
Digits(n) ==
    IF n < 10 THEN <<DigitChars[n + 1]>>
    ELSE Digits(n \div 10) \o <<DigitChars[(n % 10) + 1]>>

\* str(n) of an int
str(n) == IF n < 0 THEN <<"-">> \o Digits(-n) ELSE Digits(n)

RECURSIVE DigitsVal(_)
DigitsVal(t) ==
    IF Len(t) = 0 THEN 0
    ELSE 10 * DigitsVal(SubSeq(t, 1, Len(t) - 1)) + DigitVal(t[Len(t)])

AllDigits(t) == Len(t) > 0 /\ \A k \in 1..Len(t) : IsDigit(t[k])

\* int(t) of a str: an optional sign and decimal digits, else ValueError
int(t) ==
    IF AllDigits(t) THEN [ok |-> TRUE, val |-> DigitsVal(t)]
    ELSE IF Len(t) > 1 /\ t[1] \in {"-", "+"} /\ AllDigits(Tail(t))
    THEN [ok |-> TRUE,
          val |-> IF t[1] = "-" THEN 0 - DigitsVal(Tail(t)) ELSE DigitsVal(Tail(t))]
    ELSE [ok |-> FALSE, val |-> 0]

\* command.split(" "): the pieces between single spaces, empty pieces kept
RECURSIVE split(_)
split(t) ==
    IF \A k \in 1..Len(t) : t[k] # " " THEN <<t>>
    ELSE LET k == CHOOSE j \in 1..Len(t) :
                      t[j] = " " /\ \A m \in 1..(j - 1) : t[m] # " "
         IN <<SubSeq(t, 1, k - 1)>> \o split(SubSeq(t, k + 1, Len(t)))

\* " ".join(parts), as the f-strings of the client build their commands
RECURSIVE join(_)
join(parts) ==
    IF Len(parts) = 0 THEN <<>>
    ELSE IF Len(parts) = 1 THEN parts[1]
    ELSE parts[1] \o <<" ">> \o join(Tail(parts))

\* ------------------------------------------------------------ ServerSession

clear_state(s) ==
    [lower |-> None, upper |-> None, secret |-> None, guesses |-> <<>>]

\* A set_params that does not call clear_state first.
set_params_no_clear(s, lower, upper) ==
    LET lo == int(lower)
        hi == int(upper)
    IN IF ~lo.ok THEN [sess |-> s, out |-> <<>>, exc |-> "ValueError", used |-> 0]
       ELSE IF ~hi.ok
       THEN [sess |-> [s EXCEPT !.lower = Some(lo.val)], out |-> <<>>,
             exc |-> "ValueError", used |-> 0]
       ELSE [sess |-> [s EXCEPT !.lower = Some(lo.val), !.upper = Some(hi.val)],
             out |-> <<>>, exc |-> "none", used |-> 0]

set_params(s, lower, upper) ==
    LET c == clear_state(s)
        lo == int(lower)
        hi == int(upper)
    IN IF ~lo.ok THEN [sess |-> c, out |-> <<>>, exc |-> "ValueError", used |-> 0]
       ELSE IF ~hi.ok
       THEN [sess |-> [c EXCEPT !.lower = Some(lo.val)], out |-> <<>>,
             exc |-> "ValueError", used |-> 0]
       ELSE [sess |-> [c EXCEPT !.lower = Some(lo.val), !.upper = Some(hi.val)],
             out |-> <<>>, exc |-> "none", used |-> 0]

\* The results random.randint(lower, upper) can give.
randint(lower, upper) == lower..upper

\* The first draw that is not in guesses; 0 when every draw is in guesses.
FirstFresh(guesses, draws) ==
    LET fresh == {k \in 1..Len(draws) :
                     \A j \in 1..Len(guesses) : guesses[j] # draws[k]}
    IN IF fresh = {} THEN 0
       ELSE CHOOSE k \in fresh : \A j \in fresh : k <= j

\* A next_guess that does not look at the pinned secret.
next_guess_no_pin(s, draws) ==
    IF s.lower = None \/ s.upper = None
    THEN [guess |-> 0, exc |-> "TypeError", used |-> 0]
    ELSE IF s.lower[1] > s.upper[1]
    THEN [guess |-> 0, exc |-> "ValueError", used |-> 0]
    ELSE LET k == FirstFresh(s.guesses, draws)
         IN IF k = 0 THEN [guess |-> 0, exc |-> "hang", used |-> Len(draws)]
            ELSE [guess |-> draws[k], exc |-> "none", used |-> k]

\* A next_guess that returns its first draw, in guesses or not.
next_guess_any(s, draws) ==
    IF s.secret # None THEN [guess |-> s.secret[1], exc |-> "none", used |-> 0]
    ELSE IF s.lower = None \/ s.upper = None
    THEN [guess |-> 0, exc |-> "TypeError", used |-> 0]
    ELSE IF s.lower[1] > s.upper[1]
    THEN [guess |-> 0, exc |-> "ValueError", used |-> 0]
    ELSE IF Len(draws) = 0 THEN [guess |-> 0, exc |-> "hang", used |-> 0]
    ELSE [guess |-> draws[1], exc |-> "none", used |-> 1]

\* A next_guess that raises when no draw is fresh.
next_guess_gives_up(s, draws) ==
    IF s.secret # None THEN [guess |-> s.secret[1], exc |-> "none", used |-> 0]
    ELSE IF s.lower = None \/ s.upper = None
    THEN [guess |-> 0, exc |-> "TypeError", used |-> 0]
    ELSE IF s.lower[1] > s.upper[1]
    THEN [guess |-> 0, exc |-> "ValueError", used |-> 0]
    ELSE LET k == FirstFresh(s.guesses, draws)
         IN IF k = 0 THEN [guess |-> 0, exc |-> "ValueError", used |-> Len(draws)]
            ELSE [guess |-> draws[k], exc |-> "none", used |-> k]

\* draws: the results of the successive random.randint calls of the loop.
\* used: how many of them the call consumed.
next_guess(s, draws) ==
    IF s.secret # None THEN [guess |-> s.secret[1], exc |-> "none", used |-> 0]
    ELSE IF s.lower = None \/ s.upper = None
    THEN [guess |-> 0, exc |-> "TypeError", used |-> 0]
    ELSE IF s.lower[1] > s.upper[1]
    THEN [guess |-> 0, exc |-> "ValueError", used |-> 0]
    ELSE LET k == FirstFresh(s.guesses, draws)
         IN IF k = 0 THEN [guess |-> 0, exc |-> "hang", used |-> Len(draws)]
            ELSE [guess |-> draws[k], exc |-> "none", used |-> k]

\* A send_number that sends the number twice.
send_number_twice(s, draws) ==
    LET g == next_guess(s, draws)
    IN IF g.exc # "none" THEN [sess |-> s, out |-> <<>>, exc |-> g.exc, used |-> g.used]
       ELSE [sess |-> [s EXCEPT !.guesses = Append(@, g.guess)],
             out |-> <<str(g.guess), str(g.guess)>>, exc |-> "none", used |-> g.used]

send_number(s, draws) ==
    LET g == next_guess(s, draws)
    IN IF g.exc # "none" THEN [sess |-> s, out |-> <<>>, exc |-> g.exc, used |-> g.used]
       ELSE [sess |-> [s EXCEPT !.guesses = Append(@, g.guess)],
             out |-> <<str(g.guess)>>, exc |-> "none", used |-> g.used]

\* A receive_report that pins the first guess of the game, not the last.
receive_report_first(s, decision) ==
    IF Len(s.guesses) = 0 THEN [sess |-> s, out |-> <<>>, exc |-> "IndexError", used |-> 0]
    ELSE LET first == s.guesses[1]
         IN [sess |-> IF decision = CORRECT THEN [s EXCEPT !.secret = Some(first)]
                      ELSE s,
             out |-> <<>>, exc |-> "none", used |-> 0]

receive_report(s, decision) ==
    IF Len(s.guesses) = 0 THEN [sess |-> s, out |-> <<>>, exc |-> "IndexError", used |-> 0]
    ELSE LET last == s.guesses[Len(s.guesses)]
         IN [sess |-> IF decision = CORRECT THEN [s EXCEPT !.secret = Some(last)]
                      ELSE s,
             out |-> <<>>, exc |-> "none", used |-> 0]

\* One pass of the while loop of ServerSession.loop on a received command:
\* the session after it, the commands sent, how the pass ended ("none": the
\* loop goes on; "return": the loop condition was false; else the exception
\* raised), and how many random.randint draws it used.
loop(s, command, draws) ==
    LET parts == split(command)
    IN IF command = <<>> THEN [sess |-> s, out |-> <<>>, exc |-> "return", used |-> 0]
       ELSE IF Len(parts) = 3 /\ parts[1] = <<"PARAMS">>
       THEN set_params(s, parts[2], parts[3])
       ELSE IF parts = <<<<"NUMBER">>>> THEN send_number(s, draws)
       ELSE IF Len(parts) = 2 /\ parts[1] = <<"REPORT">>
       THEN receive_report(s, parts[2])
       ELSE IF parts = <<<<"CLEAR">>>>
       THEN [sess |-> clear_state(s), out |-> <<>>, exc |-> "none", used |-> 0]
       ELSE [sess |-> s, out |-> <<>>, exc |-> "UnknownCommandError", used |-> 0]

\* ------------------------------------------------------------ AsyncServerSession

async_clear_state(s) ==
    [lower |-> None, upper |-> None, secret |-> None, guesses |-> <<>>]

async_set_params(s, lower, upper) ==
    LET c == async_clear_state(s)
        lo == int(lower)
        hi == int(upper)
    IN IF ~lo.ok THEN [sess |-> c, out |-> <<>>, exc |-> "ValueError", used |-> 0]
       ELSE IF ~hi.ok
       THEN [sess |-> [c EXCEPT !.lower = Some(lo.val)], out |-> <<>>,
             exc |-> "ValueError", used |-> 0]
       ELSE [sess |-> [c EXCEPT !.lower = Some(lo.val), !.upper = Some(hi.val)],
             out |-> <<>>, exc |-> "none", used |-> 0]

async_next_guess(s, draws) ==
    IF s.secret # None THEN [guess |-> s.secret[1], exc |-> "none", used |-> 0]
    ELSE IF s.lower = None \/ s.upper = None
    THEN [guess |-> 0, exc |-> "TypeError", used |-> 0]
    ELSE IF s.lower[1] > s.upper[1]
    THEN [guess |-> 0, exc |-> "ValueError", used |-> 0]
    ELSE LET k == FirstFresh(s.guesses, draws)
         IN IF k = 0 THEN [guess |-> 0, exc |-> "hang", used |-> Len(draws)]
            ELSE [guess |-> draws[k], exc |-> "none", used |-> k]

async_send_number(s, draws) ==
    LET g == async_next_guess(s, draws)
    IN IF g.exc # "none" THEN [sess |-> s, out |-> <<>>, exc |-> g.exc, used |-> g.used]
       ELSE [sess |-> [s EXCEPT !.guesses = Append(@, g.guess)],
             out |-> <<str(g.guess)>>, exc |-> "none", used |-> g.used]

async_receive_report(s, decision) ==
    IF Len(s.guesses) = 0 THEN [sess |-> s, out |-> <<>>, exc |-> "IndexError", used |-> 0]
    ELSE LET last == s.guesses[Len(s.guesses)]
         IN [sess |-> IF decision = CORRECT THEN [s EXCEPT !.secret = Some(last)]
                      ELSE s,
             out |-> <<>>, exc |-> "none", used |-> 0]

async_loop(s, command, draws) ==
    LET parts == split(command)
    IN IF command = <<>> THEN [sess |-> s, out |-> <<>>, exc |-> "return", used |-> 0]
       ELSE IF Len(parts) = 3 /\ parts[1] = <<"PARAMS">>
       THEN async_set_params(s, parts[2], parts[3])
       ELSE IF parts = <<<<"NUMBER">>>> THEN async_send_number(s, draws)
       ELSE IF Len(parts) = 2 /\ parts[1] = <<"REPORT">>
       THEN async_receive_report(s, parts[2])
       ELSE IF parts = <<<<"CLEAR">>>>
       THEN [sess |-> async_clear_state(s), out |-> <<>>, exc |-> "none", used |-> 0]
       ELSE [sess |-> s, out |-> <<>>, exc |-> "UnknownCommandError", used |-> 0]

\* ------------------------------------------------------------ Connection

\* Connection.send and AsyncConnection.send: the bytes written for a command.
send(command) == command \o <<"\n">>

\* The position of the first newline of stream after pos; 0 when there is none.
NewlineAfter(stream, pos) ==
    LET nl == {k \in (pos + 1)..Len(stream) : stream[k] = "\n"}
    IN IF nl = {} THEN 0 ELSE CHOOSE k \in nl : \A j \in nl : k <= j

\* A receive that returns the line with its newline.
receive_whole(stream, pos, closed) ==
    LET k == NewlineAfter(stream, pos)
    IN IF k # 0
       THEN [ready |-> TRUE, eof |-> FALSE, line |-> SubSeq(stream, pos + 1, k),
             pos |-> k]
       ELSE IF ~closed
       THEN [ready |-> FALSE, eof |-> FALSE, line |-> <<>>, pos |-> pos]
       ELSE IF pos = Len(stream)
       THEN [ready |-> TRUE, eof |-> TRUE, line |-> <<>>, pos |-> pos]
       ELSE [ready |-> TRUE, eof |-> FALSE,
             line |-> SubSeq(stream, pos + 1, Len(stream)), pos |-> Len(stream)]

\* Connection.receive and AsyncConnection.receive on the bytes of stream from
\* pos on: readline() gives the bytes up to and with the first newline, or
\* what is left when the peer has closed; no byte at all is EOFError; the
\* last byte of the line is cut.
receive(stream, pos, closed) ==
    LET k == NewlineAfter(stream, pos)
    IN IF k # 0
       THEN [ready |-> TRUE, eof |-> FALSE, line |-> SubSeq(stream, pos + 1, k - 1),
             pos |-> k]
       ELSE IF ~closed
       THEN [ready |-> FALSE, eof |-> FALSE, line |-> <<>>, pos |-> pos]
       ELSE IF pos = Len(stream)
       THEN [ready |-> TRUE, eof |-> TRUE, line |-> <<>>, pos |-> pos]
       ELSE [ready |-> TRUE, eof |-> FALSE,
             line |-> SubSeq(stream, pos + 1, Len(stream) - 1), pos |-> Len(stream)]

\* ------------------------------------------------------------ ClientSession

\* math.fabs on the difference of two ints
fabs(x) == IF x < 0 THEN 0 - x ELSE x

ClientSession(secret) == [secret |-> secret, last_distance |-> None]

\* A report_outcome that forgets to store the new distance.
report_outcome_no_store(c, number) ==
    LET new_distance == fabs(number - c.secret)
        decision == IF new_distance = 0 THEN CORRECT
                    ELSE IF c.last_distance = None THEN UNSURE
                    ELSE IF new_distance < c.last_distance[1] THEN WARMER
                    ELSE IF new_distance > c.last_distance[1] THEN COLDER
                    ELSE SAME
    IN [sess |-> c,
        out |-> <<<<"REPORT", " ">> \o decision>>,
        ret |-> decision]

\* A report_outcome that tests last_distance before the distance 0.
report_outcome_unsure_first(c, number) ==
    LET new_distance == fabs(number - c.secret)
        decision == IF c.last_distance = None THEN UNSURE
                    ELSE IF new_distance = 0 THEN CORRECT
                    ELSE IF new_distance < c.last_distance[1] THEN WARMER
                    ELSE IF new_distance > c.last_distance[1] THEN COLDER
                    ELSE SAME
    IN [sess |-> [c EXCEPT !.last_distance = Some(new_distance)],
        out |-> <<<<"REPORT", " ">> \o decision>>,
        ret |-> decision]

\* A report_outcome with the two comparisons exchanged.
report_outcome_swapped(c, number) ==
    LET new_distance == fabs(number - c.secret)
        decision == IF new_distance = 0 THEN CORRECT
                    ELSE IF c.last_distance = None THEN UNSURE
                    ELSE IF new_distance > c.last_distance[1] THEN WARMER
                    ELSE IF new_distance < c.last_distance[1] THEN COLDER
                    ELSE SAME
    IN [sess |-> [c EXCEPT !.last_distance = Some(new_distance)],
        out |-> <<<<"REPORT", " ">> \o decision>>,
        ret |-> decision]

report_outcome(c, number) ==
    LET new_distance == fabs(number - c.secret)
        decision == IF new_distance = 0 THEN CORRECT
                    ELSE IF c.last_distance = None THEN UNSURE
                    ELSE IF new_distance < c.last_distance[1] THEN WARMER
                    ELSE IF new_distance > c.last_distance[1] THEN COLDER
                    ELSE SAME
    IN [sess |-> [c EXCEPT !.last_distance = Some(new_distance)],
        out |-> <<<<"REPORT", " ">> \o decision>>,
        ret |-> decision]

\* ------------------------------------------------------------ AsyncClientSession

AsyncClientSession(secret) == [secret |-> secret, last_distance |-> None]

async_report_outcome(c, number) ==
    LET new_distance == fabs(number - c.secret)
        decision == IF new_distance = 0 THEN CORRECT
                    ELSE IF c.last_distance = None THEN UNSURE
                    ELSE IF new_distance < c.last_distance[1] THEN WARMER
                    ELSE IF new_distance > c.last_distance[1] THEN COLDER
                    ELSE SAME
    IN [sess |-> [c EXCEPT !.last_distance = Some(new_distance)],
        out |-> <<<<"REPORT", " ">> \o decision>>,
        ret |-> decision]

\* ------------------------------------------------------------ state

VARIABLES
    flavor,     \* the implementation a run exercises: "thread", "async", "both"
    session,    \* session[i]: the ServerSession / AsyncServerSession fields
    status,     \* status[i]: "loop" while the server loop runs, else how it ended
    log,        \* log[i]: the commands the server processed, each with its reply
    c2s,        \* c2s[i]: every byte the client side has sent
    s2c,        \* s2c[i]: every byte the server has sent
    srd,        \* srd[i]: how many bytes of c2s[i] the server has read
    crd,        \* crd[i]: how many bytes of s2c[i] the client has read
    client,     \* client[i]: the ClientSession / AsyncClientSession fields
    cpc,        \* cpc[i]: where the client code stands
    games,      \* the (lower, upper, secret) of the games the client plays
    gi,         \* gi[i]: the index in games of the client's current game
    results,    \* results[i]: the (number, decision) pairs yielded so far
    gstart,     \* gstart[i]: how many pairs results[i] held when the game began
    rng,        \* the results of random.randint drawn so far (EquivSpec)
    rpos,       \* rpos[i]: how many draws of rng the server has consumed
    sent,       \* sent[i]: the commands passed to send on the sending end (WireSpec)
    conns,      \* the connections run_server accepted, in the order of accept
    listener,   \* where the accept loop of run_server stands
    counter,    \* item_69: the global counter
    lock,       \* item_69: the thread that holds lock, or None
    barrier,    \* item_69: the threads that have reached BARRIER.wait()
    worker,     \* item_69: worker[t]: where thread t stands and its locals
    example,    \* item_69: the example that runs: "unsafe", "safe", "none"
    pipeline,   \* item_70: the queues, workers and main thread of good_pipeline_example
    life,       \* item_73: the queues, workers and main thread of simulate_pipeline
    merge       \* item_78: the handles, tasks and caller of run_tasks

vars == <<flavor, session, status, log, c2s, s2c, srd, crd, client, cpc, games,
          gi, results, gstart, rng, rpos, sent, conns, listener, counter, lock,
          barrier, worker, example, pipeline, life, merge>>

concVars == <<conns, listener>>

counterVars == <<counter, lock, barrier, worker, example>>

otherVars == <<pipeline, life, merge>>

serverVars == <<session, status, log, s2c, srd>>

clientVars == <<client, cpc, gi, results, gstart, crd>>

\* ServerSession.__init__ / AsyncServerSession.__init__
NewSession(i) ==
    IF i = "thread" THEN clear_state(<<>>) ELSE async_clear_state(<<>>)

\* The state of item_76 every specification starts from, but for flavor,
\* games and client.
InitSessions ==
    /\ session = [i \in Impl |-> NewSession(i)]
    /\ status = [i \in Impl |-> "loop"]
    /\ log = [i \in Impl |-> <<>>]
    /\ c2s = [i \in Impl |-> <<>>]
    /\ s2c = [i \in Impl |-> <<>>]
    /\ srd = [i \in Impl |-> 0]
    /\ crd = [i \in Impl |-> 0]
    /\ cpc = [i \in Impl |-> "idle"]
    /\ gi = [i \in Impl |-> 1]
    /\ results = [i \in Impl |-> <<>>]
    /\ gstart = [i \in Impl |-> 0]
    /\ rng = <<>>
    /\ rpos = [i \in Impl |-> 0]
    /\ sent = [i \in Impl |-> <<>>]
    /\ conns = <<>>
    /\ listener = "listening"

\* item_76 alone: no example of item_69 runs.
IdleCounter ==
    /\ counter = 0
    /\ lock = None
    /\ barrier = {}
    /\ worker = <<>>
    /\ example = "none"

\* No example of item_70, item_73 or item_78 runs.
IdleOthers ==
    /\ pipeline = None
    /\ life = None
    /\ merge = None

\* item_76 alone.
InitCommon ==
    /\ InitSessions
    /\ IdleCounter
    /\ IdleOthers

\* item_76 does not run.
Idle76 ==
    /\ InitSessions
    /\ flavor = "thread"
    /\ games = <<>>
    /\ client = [i \in Impl |-> None]

\* The bytes sent for a sequence of commands.
RECURSIVE SendAll(_)
SendAll(cmds) ==
    IF Len(cmds) = 0 THEN <<>> ELSE send(cmds[1]) \o SendAll(Tail(cmds))

Elems(q) == {q[k] : k \in 1..Len(q)}

\* Sequences over S of length 0..n.
SeqsUpTo(S, n) == UNION {[1..k -> S] : k \in 0..n}

\* The draws an action hands to next_guess, which uses them when it reaches
\* its loop: when a number of the range is not in guesses, up to MaxSpin draws that are in
\* guesses and then one that is not (the loop ends with probability 1);
\* when every number of the range is in guesses, the loop never ends.
DrawChoices(s) ==
    IF s.lower = None \/ s.upper = None THEN {<<>>}
    ELSE LET range == randint(s.lower[1], s.upper[1])
             stale == range \cap Elems(s.guesses)
             fresh == range \ Elems(s.guesses)
         IN IF fresh = {} THEN {<<>>}
            ELSE {rej \o <<d>> : rej \in SeqsUpTo(stale, MaxSpin), d \in fresh}

\* One pass of the loop of session i on a received command.
Dispatch(i, s, command, draws) ==
    IF i = "thread" THEN loop(s, command, draws) ELSE async_loop(s, command, draws)

\* A handler that does not catch EOFError.
Ended_uncaught(exc) ==
    IF exc = "none" THEN "loop"
    ELSE IF exc = "return" THEN "returned"
    ELSE exc

\* handle_connection / handle_async_connection: what becomes of the handler
\* when the loop ends with exc.
Ended(exc) ==
    IF exc = "none" THEN "loop"
    ELSE IF exc = "return" THEN "returned"
    ELSE IF exc = "EOFError" THEN "closed"
    ELSE exc

\* The server of connection i takes one pass of its loop on the bytes of
\* stream (all that its peer has sent; closed: the peer has closed).
ServerPass(i, stream, closed, draws) ==
    LET rc == receive(stream, srd[i], closed)
        r == Dispatch(i, session[i], rc.line, draws)
    IN /\ status[i] = "loop"
       /\ rc.ready
       /\ srd' = [srd EXCEPT ![i] = rc.pos]
       /\ IF rc.eof
          THEN /\ status' = [status EXCEPT ![i] = Ended("EOFError")]
               /\ UNCHANGED <<session, log, s2c>>
          ELSE /\ session' = [session EXCEPT ![i] = r.sess]
               /\ status' = [status EXCEPT ![i] = Ended(r.exc)]
               /\ s2c' = [s2c EXCEPT ![i] = @ \o SendAll(r.out)]
               /\ log' = [log EXCEPT ![i] =
                             Append(@, [cmd |-> rc.line, reply |-> r.out,
                                        exc |-> r.exc])]

\* ------------------------------------------------------------ ServerSpec
\* One server session fed any sequence of lines by its peer.

\* f"PARAMS {lower} {upper}"
Params(lower, upper) == <<"PARAMS", " ">> \o str(lower) \o <<" ">> \o str(upper)

\* f"REPORT {decision}"
Report(decision) == <<"REPORT", " ">> \o decision

ServerBounds == {<<1, MaxVal>>, <<2, MaxVal>>, <<MaxVal, 1>>}

WellFormed ==
    {Params(b[1], b[2]) : b \in ServerBounds}
        \cup {<<"NUMBER">>, <<"CLEAR">>, Report(CORRECT), Report(WARMER)}

Malformed ==
    {<<>>, <<"NUMBER", " ">>, <<"PARAMS", " ", "1">>, <<"HELLO">>, <<"REPORT">>,
     <<" ", "CLEAR">>}

BadNumber == {<<"PARAMS", " ", "x", " ", "1">>}

Lines == WellFormed \cup Malformed \cup BadNumber

ServerInit ==
    /\ InitCommon
    /\ flavor \in Impl
    /\ games = <<>>
    /\ client = [i \in Impl |-> None]

\* The peer sends line and the server loop processes it.
Serve(i) ==
    \E line \in Lines :
        \E draws \in DrawChoices(session[i]) :
            /\ i = flavor
            /\ Len(log[i]) < MaxCmds
            /\ c2s' = [c2s EXCEPT ![i] = @ \o send(line)]
            /\ ServerPass(i, c2s'[i], FALSE, draws)
            /\ UNCHANGED <<flavor, concVars, counterVars, otherVars, sent, clientVars, games, rng, rpos>>

\* The peer closes the connection and the server loop finds it closed.
PeerClose(i) ==
    /\ i = flavor
    /\ ServerPass(i, c2s[i], TRUE, <<>>)
    /\ UNCHANGED <<flavor, concVars, counterVars, otherVars, sent, c2s, clientVars, games, rng, rpos>>

ServerNext == \E i \in Impl : Serve(i) \/ PeerClose(i)

ServerSpec == ServerInit /\ [][ServerNext]_vars

\* ------------------------------------------------------------ ServerSpec: claims

\* What the log of a session says of its k-th processed command.
IsNumber(e) == e.cmd = <<"NUMBER">> /\ e.exc = "none"

IsReportCorrect(e) == e.cmd = Report(CORRECT) /\ e.exc = "none"

IsClear(e) == e.cmd = <<"CLEAR">>

IsParams(e) == Len(split(e.cmd)) = 3 /\ split(e.cmd)[1] = <<"PARAMS">>

\* The number in the reply to a NUMBER.
Replied(e) == int(e.reply[1]).val

\* The number last offered before the j-th command of log l.
LastOffered(l, j) ==
    LET ks == {m \in 1..(j - 1) : IsNumber(l[m])}
    IN Replied(l[CHOOSE m \in ks : \A n \in ks : n <= m])

\* C2 as stated: after a processed REPORT Correct, every later NUMBER is
\* answered with the number last offered when REPORT Correct arrived, as long
\* as no CLEAR is processed in between, whatever else is.
C2_PinnedUntilClear ==
    \A i \in Impl : \A j \in 1..Len(log[i]) : \A k \in (j + 1)..Len(log[i]) :
        (/\ IsReportCorrect(log[i][j])
         /\ IsNumber(log[i][k])
         /\ \A m \in (j + 1)..(k - 1) : ~IsClear(log[i][m]))
            => Replied(log[i][k]) = LastOffered(log[i], j)

\* C2 amended: after a processed REPORT Correct, every later NUMBER is
\* answered with the number last offered when REPORT Correct arrived, as long
\* as neither a CLEAR nor a PARAMS is processed in between.
C2_PinnedUntilClearOrParams ==
    \A i \in Impl : \A j \in 1..Len(log[i]) : \A k \in (j + 1)..Len(log[i]) :
        (/\ IsReportCorrect(log[i][j])
         /\ IsNumber(log[i][k])
         /\ \A m \in (j + 1)..(k - 1) : ~IsClear(log[i][m]) /\ ~IsParams(log[i][m]))
            => Replied(log[i][k]) = LastOffered(log[i], j)

\* A NUMBER answered after REPORT Correct with another REPORT in between.
C2_Witness ==
    \E i \in Impl : \E j \in 1..Len(log[i]) : \E k \in (j + 2)..Len(log[i]) :
        /\ IsReportCorrect(log[i][j])
        /\ IsNumber(log[i][k])
        /\ log[i][j + 1].cmd = Report(WARMER)
        /\ \A m \in (j + 1)..(k - 1) : ~IsClear(log[i][m]) /\ ~IsParams(log[i][m])

\* C3 as stated: between a PARAMS and the next CLEAR, while no REPORT Correct
\* has been processed, no number is sent twice in reply to NUMBER.
C3_NoRepeatUntilClear ==
    \A i \in Impl : \A p \in 1..Len(log[i]) :
        \A j \in (p + 1)..Len(log[i]) : \A k \in (j + 1)..Len(log[i]) :
            (/\ IsParams(log[i][p])
             /\ IsNumber(log[i][j])
             /\ IsNumber(log[i][k])
             /\ \A m \in (p + 1)..k : ~IsClear(log[i][m]) /\ ~IsReportCorrect(log[i][m]))
                => Replied(log[i][j]) # Replied(log[i][k])

\* C3 amended: between a PARAMS and the next PARAMS or CLEAR, while no REPORT
\* Correct has been processed, no number is sent twice in reply to NUMBER.
C3_NoRepeatUntilReset ==
    \A i \in Impl : \A p \in 1..Len(log[i]) :
        \A j \in (p + 1)..Len(log[i]) : \A k \in (j + 1)..Len(log[i]) :
            (/\ IsParams(log[i][p])
             /\ IsNumber(log[i][j])
             /\ IsNumber(log[i][k])
             /\ \A m \in (p + 1)..k :
                    /\ ~IsClear(log[i][m])
                    /\ ~IsParams(log[i][m])
                    /\ ~IsReportCorrect(log[i][m]))
                => Replied(log[i][j]) # Replied(log[i][k])

\* Three numbers offered in one cycle with no REPORT Correct.
C3_Witness ==
    \E i \in Impl : \E p \in 1..Len(log[i]) :
        /\ p + 4 <= Len(log[i])
        /\ IsParams(log[i][p])
        /\ IsNumber(log[i][p + 1])
        /\ log[i][p + 2].cmd = Report(WARMER)
        /\ IsNumber(log[i][p + 3])
        /\ IsNumber(log[i][p + 4])

\* C9: when both bounds of a session are set, every element of guesses lies
\* in [lower, upper].
C9_GuessesInBounds ==
    \A i \in Impl :
        (session[i].lower # None /\ session[i].upper # None)
            => \A k \in 1..Len(session[i].guesses) :
                   /\ session[i].lower[1] <= session[i].guesses[k]
                   /\ session[i].guesses[k] <= session[i].upper[1]

\* A number offered under the narrowed bounds [2, MaxVal] after 1 was offered
\* under wider ones.
C9_Witness ==
    \E i \in Impl :
        /\ session[i].lower = Some(2)
        /\ Len(session[i].guesses) > 0
        /\ \E k \in 1..Len(log[i]) : IsNumber(log[i][k]) /\ Replied(log[i][k]) = 1

\* A received line of one of the four forms, after splitting on single spaces.
IsCommandForm(command) ==
    LET parts == split(command)
    IN \/ Len(parts) = 3 /\ parts[1] = <<"PARAMS">>
       \/ parts = <<<<"NUMBER">>>>
       \/ Len(parts) = 2 /\ parts[1] = <<"REPORT">>
       \/ parts = <<<<"CLEAR">>>>

\* C10: every received line that is none of PARAMS <lower> <upper>, NUMBER,
\* REPORT <decision>, CLEAR makes the server loop fail with UnknownCommandError.
C10_OtherLinesFail ==
    \A i \in Impl : \A k \in 1..Len(log[i]) :
        ~IsCommandForm(log[i][k].cmd) => log[i][k].exc = "UnknownCommandError"

\* No PARAMS that set both bounds was processed before the k-th command of
\* log l, or a CLEAR was processed after the last one.
BoundsUnsetAt(l, k) ==
    \A m \in 1..(k - 1) :
        (IsParams(l[m]) /\ l[m].exc = "none")
            => \E n \in (m + 1)..(k - 1) : IsClear(l[n])

\* No number was offered before the k-th command of log l since the last
\* PARAMS or CLEAR.
NoOfferSince(l, k) ==
    \A m \in 1..(k - 1) :
        IsNumber(l[m])
            => \E n \in (m + 1)..(k - 1) : IsClear(l[n]) \/ IsParams(l[n])

IsReportForm(command) ==
    Len(split(command)) = 2 /\ split(command)[1] = <<"REPORT">>

\* C11: a NUMBER processed while no bounds are set, and a REPORT processed
\* while no number has been offered since the last PARAMS or CLEAR, make the
\* server loop fail with UnknownCommandError.
C11_OutOfOrderFails ==
    \A i \in Impl : \A k \in 1..Len(log[i]) :
        /\ (log[i][k].cmd = <<"NUMBER">> /\ BoundsUnsetAt(log[i], k))
               => log[i][k].exc = "UnknownCommandError"
        /\ (IsReportForm(log[i][k].cmd) /\ NoOfferSince(log[i], k))
               => log[i][k].exc = "UnknownCommandError"

\* ------------------------------------------------------------ ReportSpec
\* report_outcome called with any numbers on one client session.

NewClient(i, secret) ==
    IF i = "thread" THEN ClientSession(secret) ELSE AsyncClientSession(secret)

ReportOutcome(i, c, number) ==
    IF i = "thread" THEN report_outcome(c, number)
    ELSE async_report_outcome(c, number)

ReportInit ==
    /\ InitCommon
    /\ flavor \in Impl
    /\ games = <<>>
    /\ \E secret \in 1..MaxVal :
           client = [i \in Impl |-> NewClient(i, secret)]

\* session.report_outcome(number): the REPORT is sent and the pair recorded.
CallReport(i) ==
    \E number \in 0..(MaxVal + 1) :
        LET r == ReportOutcome(i, client[i], number)
        IN /\ i = flavor
           /\ Len(results[i]) < MaxCalls
           /\ client' = [client EXCEPT ![i] = r.sess]
           /\ c2s' = [c2s EXCEPT ![i] = @ \o SendAll(r.out)]
           /\ results' = [results EXCEPT ![i] = Append(@, <<number, r.ret>>)]
           /\ UNCHANGED <<flavor, concVars, counterVars, otherVars, sent, serverVars, cpc, gi, gstart, crd, games, rng, rpos>>

ReportNext == \E i \in Impl : CallReport(i)

ReportSpec == ReportInit /\ [][ReportNext]_vars

\* ------------------------------------------------------------ ReportSpec: claims

\* C4 as stated: report_outcome returns Unsure on the first call made on a
\* session and on no later call.
C4_UnsureExactlyFirst ==
    \A i \in Impl : \A k \in 1..Len(results[i]) :
        (results[i][k][2] = UNSURE) <=> (k = 1)

\* C4 amended: report_outcome returns Unsure on the first call made on a
\* session when that call's number is not the secret, and on no other call.
C4_UnsureFirstUnlessCorrect ==
    \A i \in Impl : \A k \in 1..Len(results[i]) :
        (results[i][k][2] = UNSURE)
            <=> (k = 1 /\ results[i][1][1] # client[i].secret)

\* A first call that returned Unsure followed by two more calls, the last
\* one with the number of the first.
C4_Witness ==
    \E i \in Impl :
        /\ Len(results[i]) = 3
        /\ results[i][1][2] = UNSURE
        /\ results[i][3][1] = results[i][1][1]

\* C5: report_outcome returns Correct if and only if number equals the secret.
C5_CorrectIffSecret ==
    \A i \in Impl : \A k \in 1..Len(results[i]) :
        (results[i][k][2] = CORRECT) <=> (results[i][k][1] = client[i].secret)

\* Correct returned on a first call (last_distance None) and again after a
\* call that missed.
C5_Witness ==
    \E i \in Impl :
        /\ Len(results[i]) = 3
        /\ results[i][1][2] = CORRECT
        /\ results[i][2][2] # CORRECT
        /\ results[i][3][2] = CORRECT

\* The decision the ordered rule gives for distance d after last_distance.
RuleHolds(d, last_distance, decision) ==
    /\ d = 0 => decision = CORRECT
    /\ (d # 0 /\ last_distance = None) => decision = UNSURE
    /\ (d # 0 /\ last_distance # None /\ d < last_distance[1]) => decision = WARMER
    /\ (d # 0 /\ last_distance # None /\ d > last_distance[1]) => decision = COLDER
    /\ (d # 0 /\ last_distance # None /\ d = last_distance[1]) => decision = SAME

\* C6: every call of report_outcome returns the decision of the ordered rule
\* on d = |number - secret| and the last_distance before the call, leaves
\* last_distance equal to d, and sends exactly one line, REPORT <decision>.
C6_OrderedRule ==
    [][\A i \in Impl :
          results'[i] # results[i] =>
              LET pair == results'[i][Len(results'[i])]
                  d == IF pair[1] >= client[i].secret
                       THEN pair[1] - client[i].secret
                       ELSE client[i].secret - pair[1]
              IN /\ RuleHolds(d, client[i].last_distance, pair[2])
                 /\ client'[i].last_distance = Some(d)
                 /\ c2s'[i] = c2s[i] \o <<"REPORT", " ">> \o pair[2] \o <<"\n">>]_vars

\* Calls that returned Unsure, Same, Colder and Warmer, in this order.
C6_Witness ==
    \E i \in Impl :
        /\ Len(results[i]) = 4
        /\ results[i][1][2] = UNSURE
        /\ results[i][2][2] = SAME
        /\ results[i][3][2] = COLDER
        /\ results[i][4][2] = WARMER
        /\ client[i].last_distance = Some(1)

\* ------------------------------------------------------------ GameSpec
\* run_client / run_async_client playing games against the server over one
\* connection. A game is <<lower, upper, secret>>.

\* The games of run_client and run_async_client.
RunClientGames == <<<<1, 5, 3>>, <<10, 15, 12>>, <<1, 3, 2>>>>

SmallGames ==
    {<<lower, upper, secret>> : lower \in 1..GameMax, upper \in 1..GameMax,
                                secret \in 1..GameMax}

\* The game lists a run plays: one game of SmallGames with lower <= upper,
\* the first game of run_client, or its last two games.
GameLists ==
    {<<g>> : g \in {h \in SmallGames : h[1] <= h[2]}}
        \cup {SubSeq(RunClientGames, 1, 1), SubSeq(RunClientGames, 2, 3)}

GameInit ==
    /\ InitCommon
    /\ flavor \in Impl
    /\ games \in GameLists
    /\ client = [i \in Impl |-> None]

\* The socket of the client is closed: run_client has left its with block,
\* after the last game or with an exception.
ClientClosed(i) == cpc[i] \in {"closed", "EOFError", "ValueError", "raised"}

\* The socket of the server is closed: handle_connection has ended.
ServerClosed(i) == status[i] \notin {"loop", "hang"}

\* The run of implementation i is over: its client has closed and its server
\* has seen it, or its client waits for a number that never comes.
RunOver(i) ==
    \/ ClientClosed(i) /\ status[i] # "loop"
    \/ cpc[i] = "wait" /\ status[i] = "hang"

\* Implementation i runs: it is the one the run exercises or, when both are
\* exercised, the thread-based run is played first and the coroutine-based
\* run after it, as main does.
Turn(i) ==
    \/ flavor = i
    \/ flavor = "both" /\ (i = "thread" \/ RunOver("thread"))

\* The server loop of connection i takes one pass on what the client sent.
ServeClient(i) ==
    \E draws \in DrawChoices(session[i]) :
        /\ flavor = i
        /\ ServerPass(i, c2s[i], ClientClosed(i), draws)
        /\ UNCHANGED <<flavor, concVars, counterVars, otherVars, sent, c2s, clientVars, games, rng, rpos>>

\* with new_game(server, lower, upper, secret) as session: PARAMS is sent and
\* the session made.
NewGame(i) ==
    /\ Turn(i)
    /\ cpc[i] = "idle"
    /\ gi[i] <= Len(games)
    /\ LET g == games[gi[i]]
       IN /\ c2s' = [c2s EXCEPT ![i] = @ \o send(Params(g[1], g[2]))]
          /\ client' = [client EXCEPT ![i] = NewClient(i, g[3])]
    /\ cpc' = [cpc EXCEPT ![i] = "entered"]
    /\ gstart' = [gstart EXCEPT ![i] = Len(results[i])]
    /\ UNCHANGED <<flavor, concVars, counterVars, otherVars, sent, serverVars, gi, results, crd, games, rng, rpos>>

\* A generator that does not return after a Correct.
Advance_again(i) ==
    /\ Turn(i)
    /\ cpc[i] \in {"entered", "yielded"}
    /\ c2s' = [c2s EXCEPT ![i] = @ \o send(<<"NUMBER">>)]
    /\ cpc' = [cpc EXCEPT ![i] = "wait"]
    /\ UNCHANGED <<flavor, concVars, counterVars, otherVars, sent, serverVars, client, gi, results, gstart, crd, games, rng, rpos>>

\* next(it) up to the receive of request_number: the generator starts, or
\* goes on after its yield; after a Correct it returns, else NUMBER is sent.
Advance(i) ==
    /\ Turn(i)
    /\ cpc[i] \in {"entered", "yielded"}
    /\ IF cpc[i] = "yielded" /\ results[i][Len(results[i])][2] = CORRECT
       THEN /\ cpc' = [cpc EXCEPT ![i] = "exhausted"]
            /\ UNCHANGED c2s
       ELSE /\ c2s' = [c2s EXCEPT ![i] = @ \o send(<<"NUMBER">>)]
            /\ cpc' = [cpc EXCEPT ![i] = "wait"]
    /\ UNCHANGED <<flavor, concVars, counterVars, otherVars, sent, serverVars, client, gi, results, gstart, crd, games, rng, rpos>>

\* The rest of next(it): receive returns the reply, report_outcome sends the
\* REPORT and the pair is yielded. When the server has closed, receive raises
\* EOFError, which leaves the game through the finally of new_game.
GotNumber(i) ==
    LET rc == receive(s2c[i], crd[i], ServerClosed(i))
        number == int(rc.line)
        r == ReportOutcome(i, client[i], number.val)
    IN /\ Turn(i)
       /\ cpc[i] = "wait"
       /\ rc.ready
       /\ crd' = [crd EXCEPT ![i] = rc.pos]
       /\ IF rc.eof
          THEN /\ c2s' = [c2s EXCEPT ![i] = @ \o send(<<"CLEAR">>)]
               /\ cpc' = [cpc EXCEPT ![i] = "EOFError"]
               /\ UNCHANGED <<client, results>>
          ELSE IF ~number.ok
          THEN /\ c2s' = [c2s EXCEPT ![i] = @ \o send(<<"CLEAR">>)]
               /\ cpc' = [cpc EXCEPT ![i] = "ValueError"]
               /\ UNCHANGED <<client, results>>
          ELSE /\ client' = [client EXCEPT ![i] = r.sess]
               /\ c2s' = [c2s EXCEPT ![i] = @ \o SendAll(r.out)]
               /\ results' = [results EXCEPT ![i] = Append(@, <<number.val, r.ret>>)]
               /\ cpc' = [cpc EXCEPT ![i] = "yielded"]
       /\ UNCHANGED <<flavor, concVars, counterVars, otherVars, sent, serverVars, gi, gstart, games, rng, rpos>>

\* The finally of new_game after the iteration has ended: CLEAR is sent.
ExitGame(i) ==
    /\ Turn(i)
    /\ cpc[i] = "exhausted"
    /\ c2s' = [c2s EXCEPT ![i] = @ \o send(<<"CLEAR">>)]
    /\ gi' = [gi EXCEPT ![i] = @ + 1]
    /\ cpc' = [cpc EXCEPT ![i] = "idle"]
    /\ UNCHANGED <<flavor, concVars, counterVars, otherVars, sent, serverVars, client, results, gstart, crd, games, rng, rpos>>

\* run_client leaves its with block after the last game: the socket closes.
CloseClient(i) ==
    /\ Turn(i)
    /\ cpc[i] = "idle"
    /\ gi[i] > Len(games)
    /\ cpc' = [cpc EXCEPT ![i] = "closed"]
    /\ UNCHANGED <<flavor, concVars, counterVars, otherVars, sent, serverVars, c2s, client, gi, results, gstart, crd, games, rng, rpos>>

ClientNext(i) ==
    NewGame(i) \/ Advance(i) \/ GotNumber(i) \/ ExitGame(i) \/ CloseClient(i)

GameNext == \E i \in Impl : ServeClient(i) \/ ClientNext(i)

GameSpec == GameInit /\ [][GameNext]_vars

\* ------------------------------------------------------------ EquivSpec
\* The thread-based run and the coroutine-based run of the same games, the
\* coroutine-based one with the random.randint results of the thread-based one.

Max(a, b) == IF a >= b THEN a ELSE b

\* The draws the random source adds to those drawn before (avail) when the
\* loop of next_guess does not end within them.
MoreDraws(s, avail) ==
    IF s.lower = None \/ s.upper = None THEN {<<>>}
    ELSE IF FirstFresh(s.guesses, avail) # 0 THEN {<<>>}
    ELSE LET range == randint(s.lower[1], s.upper[1])
             stale == range \cap Elems(s.guesses)
             fresh == range \ Elems(s.guesses)
         IN IF fresh = {} THEN {<<>>}
            ELSE {rej \o <<d>> : rej \in SeqsUpTo(stale, MaxSpin), d \in fresh}

\* The game lists both runs play: one game of SmallGames with lower <= upper,
\* or the last game of run_client and then a game of two-digit numbers.
EquivLists ==
    {<<g>> : g \in {h \in SmallGames : h[1] <= h[2]}}
        \cup {<<RunClientGames[3], <<10, 11, 11>>>>}

EquivInit ==
    /\ InitCommon
    /\ flavor = "both"
    /\ games \in EquivLists
    /\ client = [i \in Impl |-> None]

\* The server loop of connection i takes one pass; its random.randint calls
\* give the draws of rng from the rpos[i]-th on, and new ones after them.
ServeSeeded(i) ==
    LET avail == SubSeq(rng, rpos[i] + 1, Len(rng))
        rc == receive(c2s[i], srd[i], ClientClosed(i))
    IN \E more \in MoreDraws(session[i], avail) :
           LET r == Dispatch(i, session[i], rc.line, avail \o more)
               used == IF rc.ready /\ ~rc.eof THEN r.used ELSE 0
           IN /\ flavor = "both"
              /\ Turn(i)
              /\ ServerPass(i, c2s[i], ClientClosed(i), avail \o more)
              /\ rpos' = [rpos EXCEPT ![i] = @ + used]
              /\ rng' = SubSeq(rng \o more, 1, Max(Len(rng), rpos[i] + used))
              /\ UNCHANGED <<flavor, concVars, counterVars, otherVars, sent, c2s, clientVars, games>>

EquivNext == \E i \in Impl : ServeSeeded(i) \/ ClientNext(i)

EquivSpec == EquivInit /\ [][EquivNext]_vars

\* ------------------------------------------------------------ EquivSpec: claims

IsPrefix(a, b) == Len(a) <= Len(b) /\ a = SubSeq(b, 1, Len(a))

\* C8: with the same games and the same random draws, the coroutine-based
\* pair yields the (number, decision) pairs of the thread-based pair and puts
\* the same bytes on the wire in both directions: at every moment of its run
\* what it has yielded and sent begins what the thread-based run yielded and
\* sent, and at the end of its run they are equal.
C8_SameRun ==
    /\ IsPrefix(results["async"], results["thread"])
    /\ IsPrefix(c2s["async"], c2s["thread"])
    /\ IsPrefix(s2c["async"], s2c["thread"])
    /\ RunOver("async") =>
           /\ results["async"] = results["thread"]
           /\ c2s["async"] = c2s["thread"]
           /\ s2c["async"] = s2c["thread"]
           /\ rpos["async"] = rpos["thread"]

\* Both runs of two games over, five rounds played in each.
C8_Witness ==
    /\ flavor = "both"
    /\ Len(games) = 2
    /\ RunOver("thread")
    /\ RunOver("async")
    /\ cpc["async"] = "closed"
    /\ Len(results["async"]) = 5

\* ------------------------------------------------------------ GameSpec: claims

InRange(g) == g[1] <= g[3] /\ g[3] <= g[2]

\* The pairs yielded so far in the current game of client i.
Rounds(i) == Len(results[i]) - gstart[i]

InGame(i) == cpc[i] \in {"entered", "wait", "yielded", "exhausted"}

\* A whole line of stream lies after pos.
LineAfter(stream, pos) == NewlineAfter(stream, pos) # 0

\* C1: for every lower <= secret <= upper, the iteration of a client session
\* against a server session after PARAMS lower upper ends after at most
\* upper - lower + 1 rounds, and the decision of its last round is Correct:
\* the rounds of a game never exceed upper - lower + 1, a round that reaches
\* this number is Correct, an iteration that has ended ended on Correct,
\* and the client never waits in vain: while it waits for a number the server
\* loop runs and either the reply or a command is there to be read (every
\* other step of the client needs nothing, and every step sends, reads or
\* ends something, so the iteration ends).
C1_RoundTrip ==
    \A i \in Impl :
        (InGame(i) /\ InRange(games[gi[i]])) =>
            LET n == Rounds(i)
                most == games[gi[i]][2] - games[gi[i]][1] + 1
            IN /\ n <= most
               /\ n = most => results[i][Len(results[i])][2] = CORRECT
               /\ cpc[i] = "exhausted" =>
                      n >= 1 /\ results[i][Len(results[i])][2] = CORRECT
               /\ cpc[i] = "wait" =>
                      /\ status[i] = "loop"
                      /\ LineAfter(s2c[i], crd[i]) \/ LineAfter(c2s[i], srd[i])

\* A game of five numbers that ended with its fifth round.
C1_Witness ==
    \E i \in Impl :
        /\ cpc[i] = "exhausted"
        /\ games[gi[i]] = RunClientGames[1]
        /\ Rounds(i) = 5

\* The numbers the server of connection i has offered since the last PARAMS.
RECURSIVE OfferedIn(_)
OfferedIn(l) ==
    IF Len(l) = 0 \/ IsParams(l[Len(l)]) THEN <<>>
    ELSE IF IsNumber(l[Len(l)])
    THEN Append(OfferedIn(SubSeq(l, 1, Len(l) - 1)), Replied(l[Len(l)]))
    ELSE OfferedIn(SubSeq(l, 1, Len(l) - 1))

\* With PARAMS 1 5, secret 3 and the server offering 1, then 4, then 3: the
\* three decisions are Unsure, second, Correct, and once the server has
\* processed the third REPORT it is LOCKED (bounds set) with secret 3.
C7_Scenario(second) ==
    \A i \in Impl :
        (/\ games = SubSeq(RunClientGames, 1, 1)
         /\ OfferedIn(log[i]) = <<1, 4, 3>>
         /\ InGame(i))
            => /\ Len(results[i]) = 3 =>
                      results[i] = <<<<1, UNSURE>>, <<4, second>>, <<3, CORRECT>>>>
               /\ Len(log[i]) = 7 =>
                      /\ session[i].secret = Some(3)
                      /\ session[i].lower = Some(1)
                      /\ session[i].upper = Some(5)

\* C7 as stated: the decisions are Unsure, Colder, Correct, and the server
\* ends LOCKED with secret 3.
C7_UnsureColderCorrect == C7_Scenario(COLDER)

\* C7 amended: the decisions are Unsure, Warmer, Correct, and the server ends
\* LOCKED with secret 3.
C7_UnsureWarmerCorrect == C7_Scenario(WARMER)

\* The scenario played to its third REPORT, processed by the server.
C7_Witness ==
    \E i \in Impl :
        /\ games = SubSeq(RunClientGames, 1, 1)
        /\ OfferedIn(log[i]) = <<1, 4, 3>>
        /\ Len(results[i]) = 3
        /\ Len(log[i]) = 7
        /\ InGame(i)

\* ------------------------------------------------------------ QueueSpec
\* One server session whose peer sends lines ahead of the server loop and
\* closes its socket when it likes.

MaxQueue == 3

QueueLines ==
    {Params(1, MaxVal), <<"NUMBER">>, Report(CORRECT), <<"CLEAR">>, <<"HELLO">>, <<>>}

\* The commands the peer has sent: one per newline of stream.
Sent(stream) == Cardinality({k \in 1..Len(stream) : stream[k] = "\n"})

\* The peer calls send(line).
PeerSend(i) ==
    \E line \in QueueLines :
        /\ flavor = i
        /\ ~ClientClosed(i)
        /\ Sent(c2s[i]) < MaxQueue
        /\ c2s' = [c2s EXCEPT ![i] = @ \o send(line)]
        /\ UNCHANGED <<flavor, concVars, counterVars, otherVars, sent, serverVars, clientVars, games, rng, rpos>>

\* The peer closes its socket.
PeerShutdown(i) ==
    /\ flavor = i
    /\ ~ClientClosed(i)
    /\ cpc' = [cpc EXCEPT ![i] = "closed"]
    /\ UNCHANGED <<flavor, concVars, counterVars, otherVars, sent, serverVars, c2s, client, gi, results, gstart, crd, games,
                   rng, rpos>>

QueueNext == \E i \in Impl : PeerSend(i) \/ PeerShutdown(i) \/ ServeClient(i)

QueueSpec == ServerInit /\ [][QueueNext]_vars

\* ------------------------------------------------------------ QueueSpec: claims

\* The commands of a log, in the order they were processed.
Cmds(l) == [k \in 1..Len(l) |-> l[k].cmd]

\* C13: when the server loop runs, its peer has closed and every byte the peer
\* sent has been read, the receive of the loop does not block, the step the
\* handler takes ends it normally (the EOFError is caught) and processes
\* nothing more, and every command the peer sent before closing has been
\* processed, in order and without error, whatever the state of the session.
C13_PeerCloseEndsLoop ==
    [][\A i \in Impl :
         (status[i] = "loop" /\ ClientClosed(i) /\ srd[i] = Len(c2s[i]))
            => /\ receive(c2s[i], srd[i], TRUE).ready
               /\ status'[i] = "closed"
               /\ log'[i] = log[i] /\ session'[i] = session[i] /\ s2c'[i] = s2c[i]
               /\ SendAll(Cmds(log[i])) = c2s[i]
               /\ \A k \in 1..Len(log[i]) : log[i][k].exc = "none"]_vars

\* The peer closed on a session with a pinned secret and the handler ended
\* normally with the three commands processed.
C13_Witness ==
    \E i \in Impl :
        /\ status[i] = "closed"
        /\ session[i].secret # None
        /\ Len(log[i]) = MaxQueue

\* ------------------------------------------------------------ ConcSpec
\* run_server / run_async_server: the accept loop and one handler (a thread
\* or a task) per accepted connection, each with a peer that sends lines
\* ahead of its handler; the handlers interleave in any order.

MaxConns == 3

ConcLines == {Params(1, MaxVal), <<"NUMBER">>, <<"HELLO">>}

\* The connections whose handler ended with an exception.
Failed(cs) ==
    {c \in 1..Len(cs) : cs[c].status \notin {"loop", "hang", "closed", "returned"}}

\* The connection run_server has just accepted: handle_connection makes its
\* own ServerSession. after: the connections that had failed by then.
NewConn(cs) ==
    [session |-> NewSession(flavor), status |-> "loop", log |-> <<>>,
     inb |-> <<>>, rd |-> 0, out |-> <<>>, closed |-> FALSE, after |-> Failed(cs)]

\* Handlers whose sessions share one guesses list.
HandlerPass_shared(cs, c, draws) ==
    LET rc == receive(cs[c].inb, cs[c].rd, cs[c].closed)
        r == Dispatch(flavor, cs[c].session, rc.line, draws)
    IN IF rc.eof
       THEN [cs EXCEPT ![c].rd = rc.pos, ![c].status = Ended("EOFError")]
       ELSE [d \in 1..Len(cs) |->
               IF d # c
               THEN [cs[d] EXCEPT !.session = [@ EXCEPT !.guesses = r.sess.guesses]]
               ELSE [cs[c] EXCEPT
                       !.rd = rc.pos,
                       !.session = r.sess,
                       !.status = Ended(r.exc),
                       !.out = @ \o SendAll(r.out),
                       !.log = Append(@, [cmd |-> rc.line, reply |-> r.out,
                                          exc |-> r.exc,
                                          draws |-> SubSeq(draws, 1, r.used),
                                          after |-> Failed(cs)])]]

\* The connections after the handler of connection c has taken one pass of
\* its loop: only the session, the socket and the status of c change.
HandlerPass(cs, c, draws) ==
    LET rc == receive(cs[c].inb, cs[c].rd, cs[c].closed)
        r == Dispatch(flavor, cs[c].session, rc.line, draws)
    IN IF rc.eof
       THEN [cs EXCEPT ![c].rd = rc.pos, ![c].status = Ended("EOFError")]
       ELSE [cs EXCEPT ![c] =
               [@ EXCEPT
                  !.rd = rc.pos,
                  !.session = r.sess,
                  !.status = Ended(r.exc),
                  !.out = @ \o SendAll(r.out),
                  !.log = Append(@, [cmd |-> rc.line, reply |-> r.out,
                                     exc |-> r.exc,
                                     draws |-> SubSeq(draws, 1, r.used),
                                     after |-> Failed(cs)])]]

\* An accept loop that runs the handler itself: an exception of the handler
\* ends the loop.
AfterHandler_inline(l, st) ==
    IF st \in {"loop", "hang", "closed", "returned"} THEN l ELSE st

\* The accept loop after a handler has ended a pass with status st: the
\* handler runs in its own thread (task), whose exception ends that thread
\* (task) alone.
AfterHandler(l, st) == l

ConcInit ==
    /\ InitCommon
    /\ flavor \in Impl
    /\ games = <<>>
    /\ client = [i \in Impl |-> None]

RECURSIVE SentAll(_)
\* The commands the peers of all connections have sent.
SentAll(cs) ==
    IF Len(cs) = 0 THEN 0 ELSE Sent(cs[1].inb) + SentAll(Tail(cs))

\* listener.accept() returns and the handler of the connection is started.
Accept ==
    /\ listener = "listening"
    /\ Len(conns) < MaxConns
    /\ conns' = Append(conns, NewConn(conns))
    /\ UNCHANGED <<flavor, listener, counterVars, otherVars, sent, serverVars, clientVars, c2s, games,
                   rng, rpos>>

\* The peer of connection c sends a line.
ConnSend(c) ==
    \E line \in ConcLines :
        /\ ~conns[c].closed
        /\ SentAll(conns) < MaxQueue
        /\ conns' = [conns EXCEPT ![c].inb = @ \o send(line)]
        /\ UNCHANGED <<flavor, listener, counterVars, otherVars, sent, serverVars, clientVars, c2s,
                       games, rng, rpos>>

\* The handler of connection c takes one pass of its loop.
Handle(c) ==
    \E draws \in DrawChoices(conns[c].session) :
        /\ conns[c].status = "loop"
        /\ receive(conns[c].inb, conns[c].rd, conns[c].closed).ready
        /\ conns' = HandlerPass(conns, c, draws)
        /\ listener' = AfterHandler(listener, conns'[c].status)
        /\ UNCHANGED <<flavor, counterVars, otherVars, sent, serverVars, clientVars, c2s, games, rng,
                       rpos>>

ConcNext ==
    \/ Accept
    \/ \E c \in 1..Len(conns) : ConnSend(c) \/ Handle(c)

ConcSpec == ConcInit /\ [][ConcNext]_vars

\* ------------------------------------------------------------ ConcSpec: claims

\* C12: a step in which the handler of one connection ends with an exception
\* leaves every other connection as it was (its session, its status, what it
\* has received and sent), and the accept loop is listening at every moment.
C12_OnlyOffenderEnds ==
    /\ [](listener = "listening")
    /\ [][\A c \in 1..Len(conns) :
            (conns[c].status = "loop" /\ c \in Failed(conns'))
                => /\ Len(conns') = Len(conns)
                   /\ \A d \in 1..Len(conns) : d # c => conns'[d] = conns[d]]_vars

\* Connection c has failed with UnknownCommandError; another connection,
\* accepted before that, has had a command processed since and its loop runs;
\* a third one was accepted after the failure and has been served too.
C12_Witness ==
    \E c, d, e \in 1..Len(conns) :
        /\ conns[c].status = "UnknownCommandError"
        /\ c \notin conns[d].after
        /\ conns[d].status = "loop"
        /\ \E k \in 1..Len(conns[d].log) : c \in conns[d].log[k].after
        /\ c \in conns[e].after
        /\ conns[e].status = "loop"
        /\ Len(conns[e].log) > 0

RECURSIVE Replay(_, _)
\* The session obtained by applying the commands of log l, each with the
\* random.randint results it drew, to session s run alone.
Replay(s, l) ==
    IF Len(l) = 0 THEN s
    ELSE Replay(Dispatch(flavor, s, l[1].cmd, l[1].draws).sess, Tail(l))

\* C14: at every moment and for every connection, the commands processed are
\* the first of those its peer sent, in the order sent, and the session
\* (lower, upper, secret, guesses) equals a fresh session to which these
\* commands were applied alone.
C14_SessionsIsolated ==
    \A c \in 1..Len(conns) :
        /\ SendAll(Cmds(conns[c].log)) = SubSeq(conns[c].inb, 1, conns[c].rd)
        /\ conns[c].session = Replay(NewSession(flavor), conns[c].log)

\* Two connections have each processed commands of their own and hold
\* different sessions: one has offered a number, the other has only its bounds.
C14_Witness ==
    \E c, d \in 1..Len(conns) :
        /\ c # d
        /\ Len(conns[c].log) = 2
        /\ Len(conns[c].session.guesses) = 1
        /\ Len(conns[d].log) = 1
        /\ conns[d].session.lower # None
        /\ conns[d].session.guesses = <<>>

\* ------------------------------------------------------------ GameSpec: replies

\* The numbers sent in reply to the NUMBER commands of log l, in order.
NumberReplies(l) ==
    LET numbers == SelectSeq(l, IsNumber)
    IN [k \in 1..Len(numbers) |-> numbers[k].reply[1]]

\* C15: the server sends one line, a decimal integer, for each NUMBER it
\* processes and nothing for any other command, so the bytes it has sent are
\* the replies to the NUMBER commands in order, and the k-th number the client
\* receives is the reply to the k-th NUMBER, over all the games of the run.
C15_OneLinePerNumber ==
    \A i \in Impl :
        /\ \A k \in 1..Len(log[i]) :
               IF IsNumber(log[i][k])
               THEN /\ Len(log[i][k].reply) = 1
                    /\ int(log[i][k].reply[1]).ok
                    /\ str(int(log[i][k].reply[1]).val) = log[i][k].reply[1]
               ELSE log[i][k].reply = <<>>
        /\ s2c[i] = SendAll(NumberReplies(log[i]))
        /\ Len(results[i]) <= Len(NumberReplies(log[i]))
        /\ \A k \in 1..Len(results[i]) :
               str(results[i][k][1]) = NumberReplies(log[i])[k]

\* The client is in its second game and has received a number in it, after
\* the PARAMS, REPORT and CLEAR commands of the first game.
C15_Witness ==
    \E i \in Impl :
        /\ gi[i] = 2
        /\ gstart[i] > 0
        /\ Len(results[i]) > gstart[i]
        /\ \E k \in 1..Len(log[i]) : IsClear(log[i][k])

\* ------------------------------------------------------------ GameSpec: commands sent

RECURSIVE LinesFrom(_, _)
\* The whole lines of stream after position pos, without their newlines.
LinesFrom(stream, pos) ==
    LET k == NewlineAfter(stream, pos)
    IN IF k = 0 THEN <<>>
       ELSE <<SubSeq(stream, pos + 1, k - 1)>> \o LinesFrom(stream, k)

\* Where a game stands after one more command, for the order PARAMS, then
\* rounds of NUMBER and REPORT, then CLEAR right after the first REPORT
\* Correct: "idle" between games, "bad" when the command breaks the order.
AfterCommand(st, command) ==
    IF st = "idle" /\ IsCommandForm(command) /\ Len(split(command)) = 3 THEN "entered"
    ELSE IF st \in {"entered", "reported"} /\ command = <<"NUMBER">> THEN "asked"
    ELSE IF st = "asked" /\ command = Report(CORRECT) THEN "correct"
    ELSE IF st = "asked" /\ IsReportForm(command) THEN "reported"
    ELSE IF st = "correct" /\ command = <<"CLEAR">> THEN "idle"
    ELSE "bad"

RECURSIVE AfterCommands(_, _)
AfterCommands(st, commands) ==
    IF Len(commands) = 0 THEN st
    ELSE AfterCommands(AfterCommand(st, commands[1]), Tail(commands))

\* C16: the commands a client has sent are, game after game, one PARAMS, then
\* rounds of one NUMBER and one REPORT, then one CLEAR that follows the only
\* REPORT Correct of the game; a REPORT is sent only once the reply to its
\* NUMBER has been read; between games and at the end every game is whole.
C16_GameOrder ==
    \A i \in Impl :
        LET commands == LinesFrom(c2s[i], 0)
            st == AfterCommands("idle", commands)
            reports == Len(SelectSeq(commands, IsReportForm))
        IN /\ st # "bad"
           /\ cpc[i] \in {"idle", "closed"} => st = "idle"
           /\ cpc[i] = "wait" <=> st = "asked"
           /\ reports = Len(results[i])
           /\ reports <= Len(NumberReplies(log[i]))
           /\ crd[i] = Len(SendAll(SubSeq(NumberReplies(log[i]), 1, reports)))

\* Two games were played to the end, the second in more than one round.
C16_Witness ==
    \E i \in Impl :
        /\ cpc[i] = "closed"
        /\ Len(games) = 2
        /\ Len(results[i]) > gstart[i] + 1

\* ------------------------------------------------------------ ContextSpec
\* GameSpec with any body in the with block of a game: the body may also
\* leave the block before the iteration has ended, or raise.

\* The body leaves the with block early (break, return): the finally of
\* new_game sends CLEAR and the client goes on with its next game.
LeaveEarly(i) ==
    /\ Turn(i)
    /\ cpc[i] \in {"entered", "yielded"}
    /\ c2s' = [c2s EXCEPT ![i] = @ \o send(<<"CLEAR">>)]
    /\ gi' = [gi EXCEPT ![i] = @ + 1]
    /\ cpc' = [cpc EXCEPT ![i] = "idle"]
    /\ UNCHANGED <<flavor, concVars, counterVars, otherVars, sent, serverVars, client, results, gstart,
                   crd, games, rng, rpos>>

\* A body whose exception skips the CLEAR.
BodyRaises_no_finally(i) ==
    /\ Turn(i)
    /\ cpc[i] \in {"entered", "yielded"}
    /\ cpc' = [cpc EXCEPT ![i] = "raised"]
    /\ UNCHANGED <<flavor, concVars, counterVars, otherVars, sent, serverVars, c2s, client, gi, results,
                   gstart, crd, games, rng, rpos>>

\* The body raises: the finally of new_game sends CLEAR, the exception goes
\* on out of run_client and the socket is closed.
BodyRaises(i) ==
    /\ Turn(i)
    /\ cpc[i] \in {"entered", "yielded"}
    /\ c2s' = [c2s EXCEPT ![i] = @ \o send(<<"CLEAR">>)]
    /\ cpc' = [cpc EXCEPT ![i] = "raised"]
    /\ UNCHANGED <<flavor, concVars, counterVars, otherVars, sent, serverVars, client, gi, results,
                   gstart, crd, games, rng, rpos>>

ContextNext ==
    \E i \in Impl : ServeClient(i) \/ ClientNext(i) \/ LeaveEarly(i) \/ BodyRaises(i)

ContextSpec == GameInit /\ [][ContextNext]_vars

\* ------------------------------------------------------------ ContextSpec: claims

\* Where a game context stands after one more command: "out" of any game,
\* "in" a game from its PARAMS to its CLEAR, "bad" for a PARAMS inside a game
\* and for any other command outside.
ContextAfter(st, command) ==
    IF st = "out" /\ IsCommandForm(command) /\ Len(split(command)) = 3 THEN "in"
    ELSE IF st = "in" /\ command = <<"CLEAR">> THEN "out"
    ELSE IF st = "in" /\ (command = <<"NUMBER">> \/ IsReportForm(command)) THEN "in"
    ELSE "bad"

RECURSIVE ContextAfterAll(_, _)
ContextAfterAll(st, commands) ==
    IF Len(commands) = 0 THEN st
    ELSE ContextAfterAll(ContextAfter(st, commands[1]), Tail(commands))

\* C17: in the commands a client has sent, every PARAMS is followed by
\* exactly one CLEAR before the next PARAMS, nothing but a PARAMS follows a
\* CLEAR, and the CLEAR has been sent exactly when the context of the game has
\* exited: after a Correct, after the body left early, after an exception.
C17_OneClearPerGame ==
    \A i \in Impl :
        LET st == ContextAfterAll("out", LinesFrom(c2s[i], 0))
        IN /\ st # "bad"
           /\ InGame(i) <=> st = "in"

\* A context left by an exception of the body after one round that was not
\* Correct, its CLEAR sent.
C17_Witness ==
    \E i \in Impl :
        /\ cpc[i] = "raised"
        /\ Len(results[i]) = 1
        /\ results[i][1][2] # CORRECT
        /\ ContextAfterAll("out", LinesFrom(c2s[i], 0)) = "out"

\* ------------------------------------------------------------ WireSpec
\* A Connection (AsyncConnection) alone: one end calls send with any commands
\* and closes when it likes, the other end calls receive again and again.
\* log[i] holds what the receive calls returned, status[i] is "EOFError" once
\* one of them has raised it.

\* Commands without a newline and not empty.
WireCommands ==
    {<<"NUMBER">>, <<" ">>, <<"PARAMS", " ", "1">>, <<"\r">>, <<"x", " ">>}

\* send(command) is called on the sending end.
WireSend(i) ==
    \E command \in WireCommands :
        /\ flavor = i
        /\ ~ClientClosed(i)
        /\ Len(sent[i]) < MaxQueue
        /\ c2s' = [c2s EXCEPT ![i] = @ \o send(command)]
        /\ sent' = [sent EXCEPT ![i] = Append(@, command)]
        /\ UNCHANGED <<flavor, concVars, counterVars, otherVars, serverVars, clientVars, games,
                       rng, rpos>>

\* The sending end closes its socket.
WireClose(i) ==
    /\ flavor = i
    /\ ~ClientClosed(i)
    /\ cpc' = [cpc EXCEPT ![i] = "closed"]
    /\ UNCHANGED <<flavor, concVars, counterVars, otherVars, sent, serverVars, c2s, client, gi,
                   results, gstart, crd, games, rng, rpos>>

\* receive() is called on the other end and returns a command or raises
\* EOFError.
WireReceive(i) ==
    LET rc == receive(c2s[i], srd[i], ClientClosed(i))
    IN /\ flavor = i
       /\ status[i] = "loop"
       /\ rc.ready
       /\ srd' = [srd EXCEPT ![i] = rc.pos]
       /\ IF rc.eof
          THEN /\ status' = [status EXCEPT ![i] = "EOFError"]
               /\ UNCHANGED log
          ELSE /\ log' = [log EXCEPT ![i] =
                             Append(@, [cmd |-> rc.line, reply |-> <<>>,
                                        exc |-> "none"])]
               /\ UNCHANGED status
       /\ UNCHANGED <<flavor, concVars, counterVars, otherVars, sent, session, s2c, c2s,
                      clientVars, games, rng, rpos>>

WireNext == \E i \in Impl : WireSend(i) \/ WireClose(i) \/ WireReceive(i)

WireSpec == ServerInit /\ [][WireNext]_vars

\* ------------------------------------------------------------ WireSpec: claims

\* C18: the commands the receive calls have returned are the first of the
\* commands passed to send, in the same order and unchanged; the next call
\* returns the next command sent when there is one, and raises EOFError when
\* there is none and the sender has closed; EOFError is raised in no other case.
C18_ReceiveReturnsSent ==
    \A i \in Impl :
        LET n == Len(log[i])
            rc == receive(c2s[i], srd[i], ClientClosed(i))
        IN /\ n <= Len(sent[i])
           /\ Cmds(log[i]) = SubSeq(sent[i], 1, n)
           /\ n < Len(sent[i]) =>
                  rc.ready /\ ~rc.eof /\ rc.line = sent[i][n + 1]
           /\ (n = Len(sent[i]) /\ ClientClosed(i)) => rc.ready /\ rc.eof
           /\ (n = Len(sent[i]) /\ ~ClientClosed(i)) => ~rc.ready
           /\ status[i] = "EOFError" => n = Len(sent[i]) /\ ClientClosed(i)

\* Three commands were sent, one of them a carriage return and one ending in
\* a space, all three were received and the next receive raised EOFError.
C18_Witness ==
    \E i \in Impl :
        /\ status[i] = "EOFError"
        /\ Len(log[i]) = 3
        /\ <<"\r">> \in Elems(sent[i])
        /\ <<"x", " ">> \in Elems(sent[i])

\* ------------------------------------------------------------ CounterSpec
\* item_69: incorrect_counter_example and correct_counter_example. SENSOR_COUNT
\* threads run unsafe_worker or safe_worker on the global counter; the main
\* thread starts them in order and joins them.

SENSOR_COUNT == 4

MaxHowMany == 2

Sensors == 0..(SENSOR_COUNT - 1)

item76Vars ==
    <<flavor, concVars, sent, serverVars, clientVars, c2s, games, rng, rpos>>

read_sensor(sensor_index) == sensor_index

get_offset(data) == 1

\* Thread(target=..., args=(i, how_many)): a thread not started yet.
NewWorker(sensor_index, how_many) ==
    [pc |-> "new", sensor_index |-> sensor_index, how_many |-> how_many,
     done |-> 0, data |-> 0, delta |-> 0, tmp |-> None]

CounterInit ==
    /\ Idle76
    /\ IdleOthers
    /\ counter = 0
    /\ lock = None
    /\ barrier = {}
    /\ example \in {"unsafe", "safe"}
    /\ \E how_many \in 1..MaxHowMany :
           worker = [t \in Sensors |-> NewWorker(t, how_many)]

\* thread.start() in the loop of the main thread: the threads start in order.
Start(t) ==
    /\ worker[t].pc = "new"
    /\ \A u \in Sensors : u < t => worker[u].pc # "new"
    /\ worker' = [worker EXCEPT ![t].pc = "started"]
    /\ UNCHANGED <<item76Vars, otherVars, counter, lock, barrier, example>>

\* BARRIER.wait(): the thread arrives at the barrier.
Arrive(t) ==
    /\ worker[t].pc = "started"
    /\ barrier' = barrier \cup {t}
    /\ worker' = [worker EXCEPT ![t].pc = "waiting"]
    /\ UNCHANGED <<item76Vars, otherVars, counter, lock, example>>

\* BARRIER.wait() returns once SENSOR_COUNT threads have arrived.
Pass(t) ==
    /\ worker[t].pc = "waiting"
    /\ Cardinality(barrier) = SENSOR_COUNT
    /\ worker' = [worker EXCEPT ![t].pc = "loop"]
    /\ UNCHANGED <<item76Vars, otherVars, counter, lock, barrier, example>>

\* An iteration starts: data and delta are computed; unsafe_worker goes on to
\* counter += delta, safe_worker to with lock.
Iterate(t) ==
    /\ worker[t].pc = "loop"
    /\ worker[t].done < worker[t].how_many
    /\ LET data == read_sensor(worker[t].sensor_index)
       IN worker' = [worker EXCEPT
                        ![t].data = data,
                        ![t].delta = get_offset(data),
                        ![t].pc = IF example = "safe" THEN "acquire" ELSE "load"]
    /\ UNCHANGED <<item76Vars, otherVars, counter, lock, barrier, example>>

\* An acquire that does not wait for the lock to be free.
Acquire_no_wait(t) ==
    /\ worker[t].pc = "acquire"
    /\ lock' = Some(t)
    /\ worker' = [worker EXCEPT ![t].pc = "load"]
    /\ UNCHANGED <<item76Vars, otherVars, counter, barrier, example>>

\* with lock: the lock is acquired when it is free.
Acquire(t) ==
    /\ worker[t].pc = "acquire"
    /\ lock = None
    /\ lock' = Some(t)
    /\ worker' = [worker EXCEPT ![t].pc = "load"]
    /\ UNCHANGED <<item76Vars, otherVars, counter, barrier, example>>

\* counter += delta, first half: the value of counter is read.
Load(t) ==
    /\ worker[t].pc = "load"
    /\ worker' = [worker EXCEPT ![t].tmp = Some(counter), ![t].pc = "store"]
    /\ UNCHANGED <<item76Vars, otherVars, counter, lock, barrier, example>>

\* A store that adds delta twice.
Store_twice(t) ==
    /\ worker[t].pc = "store"
    /\ counter' = worker[t].tmp[1] + 2 * worker[t].delta
    /\ worker' = [worker EXCEPT
                     ![t].tmp = None,
                     ![t].done = IF example = "safe" THEN @ ELSE @ + 1,
                     ![t].pc = IF example = "safe" THEN "release" ELSE "loop"]
    /\ UNCHANGED <<item76Vars, otherVars, lock, barrier, example>>

\* counter += delta, second half: the value read plus delta is written.
Store(t) ==
    /\ worker[t].pc = "store"
    /\ counter' = worker[t].tmp[1] + worker[t].delta
    /\ worker' = [worker EXCEPT
                     ![t].tmp = None,
                     ![t].done = IF example = "safe" THEN @ ELSE @ + 1,
                     ![t].pc = IF example = "safe" THEN "release" ELSE "loop"]
    /\ UNCHANGED <<item76Vars, otherVars, lock, barrier, example>>

\* The end of the with block: the lock is released.
Release(t) ==
    /\ worker[t].pc = "release"
    /\ lock' = None
    /\ worker' = [worker EXCEPT ![t].done = @ + 1, ![t].pc = "loop"]
    /\ UNCHANGED <<item76Vars, otherVars, counter, barrier, example>>

\* The for loop is exhausted and the worker returns.
Return(t) ==
    /\ worker[t].pc = "loop"
    /\ worker[t].done = worker[t].how_many
    /\ worker' = [worker EXCEPT ![t].pc = "returned"]
    /\ UNCHANGED <<item76Vars, otherVars, counter, lock, barrier, example>>

CounterNext ==
    \E t \in Sensors :
        \/ Start(t) \/ Arrive(t) \/ Pass(t) \/ Iterate(t) \/ Acquire(t)
        \/ Load(t) \/ Store(t) \/ Release(t) \/ Return(t)

CounterSpec == CounterInit /\ [][CounterNext]_vars

\* ------------------------------------------------------------ CounterSpec: claims

\* thread.join() has returned for every thread.
AllJoined == \A t \in Sensors : worker[t].pc = "returned"

\* how_many * SENSOR_COUNT
Expected == worker[0].how_many * SENSOR_COUNT

RECURSIVE Completed(_)
\* The iterations the threads 0..t have completed.
Completed(t) ==
    IF t < 0 THEN 0 ELSE worker[t].done + Completed(t - 1)

\* C19: with safe_worker, where the increment is done while holding the lock,
\* counter equals how_many * SENSOR_COUNT once all threads are joined, in every
\* interleaving; at most one thread is between its read and its write.
C19_SafeCounterExact ==
    example = "safe" =>
        /\ AllJoined => counter = Expected
        /\ Cardinality({t \in Sensors : worker[t].pc \in {"load", "store", "release"}}) <= 1

\* All threads of the safe example are joined, each after how_many > 1
\* increments.
C19_Witness ==
    /\ example = "safe"
    /\ AllJoined
    /\ worker[0].how_many > 1
    /\ counter = Expected

\* C20: with unsafe_worker, counter never exceeds the number of increments
\* completed, so after the join it is at most how_many * SENSOR_COUNT; the
\* witness is an interleaving after which it is smaller.
C20_UnsafeCounterAtMost ==
    example = "unsafe" =>
        /\ counter <= Completed(SENSOR_COUNT - 1)
        /\ AllJoined => counter <= Expected

\* All threads of the unsafe example are joined and counter is smaller than
\* how_many * SENSOR_COUNT: an update was lost.
C20_Witness ==
    /\ example = "unsafe"
    /\ AllJoined
    /\ counter < Expected

\* ------------------------------------------------------------ ServerSpec: resets

\* C21: whatever was processed before, the session after a CLEAR equals a
\* fresh session, and the session after a PARAMS equals a fresh session that
\* has processed this PARAMS alone.
C21_ResetsEraseHistory ==
    \A i \in Impl :
        Len(log[i]) > 0 =>
            LET last == log[i][Len(log[i])]
            IN /\ IsClear(last) => session[i] = NewSession(i)
               /\ IsParams(last) =>
                      session[i] = Dispatch(i, NewSession(i), last.cmd, <<>>).sess

\* A PARAMS and a CLEAR processed by a session whose secret had been pinned
\* by a REPORT Correct.
C21_Witness ==
    \E i \in Impl : \E j \in 1..Len(log[i]) :
        /\ IsReportCorrect(log[i][j])
        /\ j + 2 = Len(log[i])
        /\ IsParams(log[i][j + 1]) /\ log[i][j + 1].exc = "none"
        /\ IsClear(log[i][j + 2])

\* ------------------------------------------------------------ GameSpec: the iterator

\* The pairs the iteration of the current game of client i has yielded.
GamePairs(i) == SubSeq(results[i], gstart[i] + 1, Len(results[i]))

\* In the game client i plays: no pair but the last is Correct, NUMBER is
\* awaited only when no pair is Correct, an iteration that has ended has
\* yielded a Correct pair, and there are at most upper - lower + 1 pairs.
C22_Pairs ==
    \A i \in Impl :
        InGame(i) =>
            LET pairs == GamePairs(i)
                n == Len(pairs)
            IN /\ \A k \in 1..(n - 1) : pairs[k][2] # CORRECT
               /\ cpc[i] = "wait" => \A k \in 1..n : pairs[k][2] # CORRECT
               /\ cpc[i] = "exhausted" => n >= 1 /\ pairs[n][2] = CORRECT
               /\ n <= games[gi[i]][2] - games[gi[i]][1] + 1

Exhausted(s) ==
    /\ s.secret = None
    /\ s.lower # None /\ s.upper # None
    /\ \A n \in randint(s.lower[1], s.upper[1]) : n \in Elems(s.guesses)

\* The loop of connection i is inside a next_guess that does not return: the
\* last command processed is a NUMBER with no reply, on an exhausted range; in
\* a game whose secret is outside [lower, upper] no pair is Correct, the
\* iteration has not ended, and the server is in that state once it has read
\* the NUMBER that follows upper - lower + 1 pairs.
C26_Stuck ==
    \A i \in Impl :
        /\ status[i] = "hang" =>
               /\ Exhausted(session[i])
               /\ log[i][Len(log[i])].cmd = <<"NUMBER">>
               /\ log[i][Len(log[i])].reply = <<>>
        /\ \A k \in 1..Len(log[i]) : log[i][k].exc = "hang" => k = Len(log[i])
        /\ (InGame(i) /\ ~InRange(games[gi[i]])) =>
               LET most == games[gi[i]][2] - games[gi[i]][1] + 1
               IN /\ cpc[i] # "exhausted"
                  /\ \A k \in 1..Rounds(i) : GamePairs(i)[k][2] # CORRECT
                  /\ Rounds(i) <= most
                  /\ status[i] = "hang" => Rounds(i) = most /\ cpc[i] = "wait"
                  /\ (Rounds(i) = most /\ cpc[i] = "wait" /\ srd[i] = Len(c2s[i]))
                         => status[i] = "hang"

\* C26: a NUMBER processed on an exhausted range leaves the loop inside
\* next_guess with no reply sent; from then on the server of the connection
\* does nothing, and a client that waits for the reply waits in every later
\* state and sends nothing; so a game whose secret is outside [lower, upper]
\* never ends.
C26_ExhaustedRangeHangs ==
    /\ []C26_Stuck
    /\ [][\A i \in Impl :
            /\ (/\ status[i] = "loop"
                /\ Exhausted(session[i])
                /\ Len(log'[i]) = Len(log[i]) + 1
                /\ log'[i][Len(log'[i])].cmd = <<"NUMBER">>)
                   => /\ status'[i] = "hang"
                      /\ s2c'[i] = s2c[i]
                      /\ session'[i] = session[i]
            /\ status[i] = "hang" =>
                   /\ status'[i] = "hang"
                   /\ log'[i] = log[i] /\ s2c'[i] = s2c[i]
                   /\ session'[i] = session[i] /\ srd'[i] = srd[i]
            /\ (status[i] = "hang" /\ cpc[i] = "wait") =>
                   cpc'[i] = "wait" /\ c2s'[i] = c2s[i] /\ results'[i] = results[i]]_vars

\* The game (1, 2, 3): after two pairs the client waits and the server is
\* inside next_guess.
C26_Witness ==
    \E i \in Impl :
        /\ cpc[i] = "wait"
        /\ status[i] = "hang"
        /\ games[gi[i]] = <<1, 2, 3>>
        /\ Rounds(i) = 2

\* ------------------------------------------------------------ ServerSpec: the pinned secret

\* A session whose secret is set has both bounds, a guesses list that ends
\* with the secret, and the secret within the bounds.
C27_SecretShape ==
    \A i \in Impl :
        session[i].secret # None =>
            /\ session[i].lower # None /\ session[i].upper # None
            /\ Len(session[i].guesses) > 0
            /\ session[i].guesses[Len(session[i].guesses)] = session[i].secret[1]
            /\ session[i].lower[1] <= session[i].secret[1]
            /\ session[i].secret[1] <= session[i].upper[1]

\* C27: in every state a set secret comes with set bounds that contain it
\* and is the last element of a non-empty guesses; a step that processes a
\* REPORT, of any decision, on a session whose secret is set leaves the
\* secret as it is, and a step that changes a set secret processes a PARAMS
\* or a CLEAR and unsets it.
C27_SecretKept ==
    /\ []C27_SecretShape
    /\ [][\A i \in Impl :
            (session[i].secret # None /\ Len(log'[i]) = Len(log[i]) + 1) =>
                LET e == log'[i][Len(log'[i])]
                IN /\ IsReportForm(e.cmd) => session'[i].secret = session[i].secret
                   /\ session'[i].secret # session[i].secret =>
                          /\ IsParams(e) \/ IsClear(e)
                          /\ session'[i].secret = None]_vars

\* A second REPORT Correct processed while the secret was set, after another
\* NUMBER.
C27_Witness ==
    \E i \in Impl :
        /\ Len(log[i]) = 5
        /\ IsReportCorrect(log[i][3])
        /\ IsNumber(log[i][4])
        /\ IsReportCorrect(log[i][5])
        /\ session[i].secret # None

\* ------------------------------------------------------------ GameSpec: the secret found

\* The index in games of the game the server of connection i is in: one more
\* than the CLEAR commands it has processed.
ServerGame(i) == Len(SelectSeq(log[i], IsClear)) + 1

\* The server of connection i has processed the REPORT Correct of a game and
\* not yet the CLEAR of that game.
AfterCorrect(i) ==
    \E j \in 1..Len(log[i]) :
        /\ IsReportCorrect(log[i][j])
        /\ \A k \in (j + 1)..Len(log[i]) : ~IsClear(log[i][k])

\* C28: in a game with lower <= secret <= upper, from the moment the server
\* has processed the REPORT Correct of the game until it processes the CLEAR
\* of the game, the secret of the server session is set and equals the secret
\* of the client session of that game; it is set at no other moment.
C28_ServerSecretIsClientSecret ==
    \A i \in Impl :
        /\ AfterCorrect(i) <=> session[i].secret # None
        /\ AfterCorrect(i) =>
               /\ ServerGame(i) <= Len(games)
               /\ InRange(games[ServerGame(i)])
               /\ session[i].secret = Some(games[ServerGame(i)][3])

\* The server holds the secret 2 of the second game of the run while the
\* client has not yet sent the CLEAR of that game.
C28_Witness ==
    \E i \in Impl :
        /\ Len(games) = 2
        /\ ServerGame(i) = 2
        /\ session[i].secret = Some(2)
        /\ cpc[i] = "yielded"

\* ------------------------------------------------------------ PipeSpec
\* item_70: good_pipeline_example. Three stages of StoppableWorker threads
\* between four queue.Queue objects; the main thread puts the items, shuts
\* down and joins the queues from upstream to downstream, drains done_queue
\* and joins the threads. pipeline.queue[q] holds the items, the count of
\* unfinished tasks and the shutdown flag of queue q. The threads of a stage
\* run the same code on the same two queues and differ in nothing else, so
\* pipeline.worker[k] keeps, for stage k, how many of its threads are at each
\* position of run, and the results held by those about to put.
\* pipeline.main is the position of the main thread and pipeline.calls[f][item]
\* is how often func f was called on item.

DownloadWorkers == 3

ResizeWorkers == 4

UploadWorkers == 5

\* The items put (2000 in the source) and the maxsize of resize_queue and
\* upload_queue (100 in the source), scaled down together.
MaxItems == 3

MaxSize == 1

Queues == <<"download", "resize", "upload", "done">>

Funcs == <<"download", "resize", "upload">>

Stages == 1..3

\* start_threads(count, func, in_queue, out_queue) for the three stages.
Threads == <<DownloadWorkers, ResizeWorkers, UploadWorkers>>

\* Queue() and Queue(maxsize); maxsize 0 is unbounded.
Queue(maxsize) ==
    [items |-> <<>>, unfinished |-> 0, shutdown |-> FALSE, maxsize |-> maxsize]

Full(q) == q.maxsize > 0 /\ Len(q.items) >= q.maxsize

\* download, resize, upload: each returns its item.
func(f, item) == item

\* The positions of the main thread, in order.
MainSteps ==
    <<"put", "shutdown download", "join download", "shutdown resize", "join resize",
      "shutdown upload", "join upload", "drain shutdown", "drain get", "drain join",
      "join threads", "returned">>

PipeInit ==
    /\ Idle76
    /\ IdleCounter
    /\ life = None
    /\ merge = None
    /\ \E n \in 1..MaxItems :
           pipeline =
               [queue |-> [q \in {"download", "done"} |-> Queue(0)]
                              @@ [q \in {"resize", "upload"} |-> Queue(MaxSize)],
                worker |-> [k \in Stages |->
                               [get |-> Threads[k], put |-> {}, task_done |-> 0,
                                returned |-> 0, ShutDown |-> 0]],
                main |-> [pc |-> "put", n |-> n, put |-> 0, counter |-> 0],
                calls |-> [f \in {"download", "resize", "upload"} |->
                              [item \in 1..n |-> 0]]]

PipeOthers == <<item76Vars, counterVars, life, merge>>

\* for _ in range(2000): download_queue.put(object()); after the last put
\* the main thread goes on to download_queue.shutdown().
MainPut ==
    /\ pipeline.main.pc = "put"
    /\ pipeline.main.put < pipeline.main.n
    /\ ~pipeline.queue["download"].shutdown
    /\ pipeline' =
           [pipeline EXCEPT
              !.queue["download"].items = Append(@, pipeline.main.put + 1),
              !.queue["download"].unfinished = @ + 1,
              !.main.put = @ + 1,
              !.main.pc = IF pipeline.main.put + 1 < pipeline.main.n
                          THEN "put" ELSE "shutdown download"]
    /\ UNCHANGED PipeOthers

\* queue.shutdown() of the main thread: download_queue after the last put,
\* resize_queue, upload_queue, and done_queue in drain_queue.
MainShutdown ==
    \E k \in 1..4 :
        /\ pipeline.main.pc =
               IF k = 4 THEN "drain shutdown" ELSE "shutdown " \o Queues[k]
        /\ pipeline' =
               [pipeline EXCEPT
                  !.queue[Queues[k]].shutdown = TRUE,
                  !.main.pc = IF k = 4 THEN "drain get" ELSE "join " \o Queues[k]]
        /\ UNCHANGED PipeOthers

\* A join that returns while tasks of the queue are unfinished.
MainJoin_no_wait ==
    \E k \in 1..4 :
        /\ pipeline.main.pc = IF k = 4 THEN "drain join" ELSE "join " \o Queues[k]
        /\ pipeline' =
               [pipeline EXCEPT
                  !.main.pc = IF k = 4 THEN "join threads"
                              ELSE IF k = 3 THEN "drain shutdown"
                              ELSE "shutdown " \o Queues[k + 1]]
        /\ UNCHANGED PipeOthers

\* queue.join() of the main thread returns: no task of the queue is unfinished.
MainJoin ==
    \E k \in 1..4 :
        /\ pipeline.main.pc = IF k = 4 THEN "drain join" ELSE "join " \o Queues[k]
        /\ pipeline.queue[Queues[k]].unfinished = 0
        /\ pipeline' =
               [pipeline EXCEPT
                  !.main.pc = IF k = 4 THEN "join threads"
                              ELSE IF k = 3 THEN "drain shutdown"
                              ELSE "shutdown " \o Queues[k + 1]]
        /\ UNCHANGED PipeOthers

\* The loop of drain_queue: get an item, task_done, count it; ShutDown on the
\* empty queue ends the loop.
DrainGet ==
    /\ pipeline.main.pc = "drain get"
    /\ IF Len(pipeline.queue["done"].items) > 0
       THEN pipeline' =
                [pipeline EXCEPT
                   !.queue["done"].items = Tail(@),
                   !.queue["done"].unfinished = @ - 1,
                   !.main.counter = @ + 1]
       ELSE pipeline' = [pipeline EXCEPT !.main.pc = "drain join"]
    /\ UNCHANGED PipeOthers

\* The threads of stage k that have ended, by return or by an exception.
Ended70(k) == pipeline.worker[k].returned + pipeline.worker[k].ShutDown

\* for thread in threads: thread.join() comes to its end: every thread has
\* ended; good_pipeline_example returns.
JoinThreads ==
    /\ pipeline.main.pc = "join threads"
    /\ \A k \in Stages : Ended70(k) = Threads[k]
    /\ pipeline' = [pipeline EXCEPT !.main.pc = "returned"]
    /\ UNCHANGED PipeOthers

\* item = self.in_queue.get() returns an item to a thread of stage k;
\* result = self.func(item).
WorkerGet(k) ==
    /\ pipeline.worker[k].get > 0
    /\ Len(pipeline.queue[Queues[k]].items) > 0
    /\ LET item == Head(pipeline.queue[Queues[k]].items)
       IN pipeline' =
              [pipeline EXCEPT
                 !.queue[Queues[k]].items = Tail(@),
                 !.worker[k].get = @ - 1,
                 !.worker[k].put = @ \union {func(Funcs[k], item)},
                 !.calls[Funcs[k]][item] = @ + 1]
    /\ UNCHANGED PipeOthers

\* A thread that returns as soon as its queue is empty.
WorkerShutDown_empty(k) ==
    /\ pipeline.worker[k].get > 0
    /\ Len(pipeline.queue[Queues[k]].items) = 0
    /\ pipeline' =
           [pipeline EXCEPT !.worker[k].get = @ - 1, !.worker[k].returned = @ + 1]
    /\ UNCHANGED PipeOthers

\* self.in_queue.get() raises ShutDown in a thread of stage k: the queue is
\* shut down and empty; run returns.
WorkerShutDown(k) ==
    /\ pipeline.worker[k].get > 0
    /\ Len(pipeline.queue[Queues[k]].items) = 0
    /\ pipeline.queue[Queues[k]].shutdown
    /\ pipeline' =
           [pipeline EXCEPT !.worker[k].get = @ - 1, !.worker[k].returned = @ + 1]
    /\ UNCHANGED PipeOthers

\* self.out_queue.put(result) in a thread of stage k: ShutDown, which ends
\* the thread, when the queue is shut down; blocked while the queue is full.
WorkerPut(k) ==
    \E result \in pipeline.worker[k].put :
        /\ IF pipeline.queue[Queues[k + 1]].shutdown
           THEN pipeline' =
                    [pipeline EXCEPT
                       !.worker[k].put = @ \ {result},
                       !.worker[k].ShutDown = @ + 1]
           ELSE /\ ~Full(pipeline.queue[Queues[k + 1]])
                /\ pipeline' =
                       [pipeline EXCEPT
                          !.queue[Queues[k + 1]].items = Append(@, result),
                          !.queue[Queues[k + 1]].unfinished = @ + 1,
                          !.worker[k].put = @ \ {result},
                          !.worker[k].task_done = @ + 1]
        /\ UNCHANGED PipeOthers

\* self.in_queue.task_done() in a thread of stage k, which goes back to get.
WorkerTaskDone(k) ==
    /\ pipeline.worker[k].task_done > 0
    /\ pipeline' =
           [pipeline EXCEPT
              !.queue[Queues[k]].unfinished = @ - 1,
              !.worker[k].task_done = @ - 1,
              !.worker[k].get = @ + 1]
    /\ UNCHANGED PipeOthers

PipeNext ==
    \/ MainPut \/ MainShutdown \/ MainJoin \/ DrainGet \/ JoinThreads
    \/ \E k \in Stages :
           WorkerGet(k) \/ WorkerShutDown(k) \/ WorkerPut(k) \/ WorkerTaskDone(k)

PipeSpec == PipeInit /\ [][PipeNext]_vars

\* The steps of the main thread still to take after its position pc.
MainRank(pc) ==
    Len(MainSteps) - (CHOOSE k \in 1..Len(MainSteps) : MainSteps[k] = pc)

\* The steps an item in queue k (1 download .. 4 done) still takes part in:
\* get, put and task_done for each stage ahead, and the get of drain_queue.
ItemSteps(k) == 3 * (4 - k) + 1

QueueSteps(k) == Len(pipeline.queue[Queues[k]].items) * ItemSteps(k)

\* The steps the threads of stage k still take with what they hold, the
\* return of each included.
StageSteps(k) ==
    pipeline.worker[k].get
    + Cardinality(pipeline.worker[k].put) * (3 + ItemSteps(k + 1))
    + pipeline.worker[k].task_done * 2

\* The number of steps good_pipeline_example is away from its return.
PipeMeasure ==
    IF pipeline = None THEN 0
    ELSE MainRank(pipeline.main.pc)
         + (pipeline.main.n - pipeline.main.put) * (1 + ItemSteps(1))
         + QueueSteps(1) + QueueSteps(2) + QueueSteps(3) + QueueSteps(4)
         + StageSteps(1) + StageSteps(2) + StageSteps(3)

\* Some thread of the pipeline can take a step.
PipeCanStep ==
    \/ pipeline.main.pc \in {"put", "shutdown download", "shutdown resize",
                             "shutdown upload", "drain shutdown", "drain get"}
    \/ \E k \in 1..4 :
           /\ pipeline.main.pc = IF k = 4 THEN "drain join" ELSE "join " \o Queues[k]
           /\ pipeline.queue[Queues[k]].unfinished = 0
    \/ /\ pipeline.main.pc = "join threads"
       /\ \A k \in Stages : pipeline.worker[k].returned = Threads[k]
    \/ \E k \in Stages :
           \/ /\ pipeline.worker[k].get > 0
              /\ \/ Len(pipeline.queue[Queues[k]].items) > 0
                 \/ pipeline.queue[Queues[k]].shutdown
           \/ /\ pipeline.worker[k].put # {}
              /\ ~Full(pipeline.queue[Queues[k + 1]])
           \/ pipeline.worker[k].task_done > 0

PipeReturned == pipeline # None /\ pipeline.main.pc = "returned"

\* The places item is at: the queues and the stages whose threads hold it.
ItemPlaces(item) ==
    Cardinality({k \in 1..4 : \E i \in 1..Len(pipeline.queue[Queues[k]].items) :
                                  pipeline.queue[Queues[k]].items[i] = item})
    + Cardinality({k \in Stages : item \in pipeline.worker[k].put})

PipeProgress ==
    /\ ~PipeReturned => PipeCanStep
    /\ \A k \in Stages :
           /\ pipeline.worker[k].ShutDown = 0
           /\ pipeline.worker[k].get + Cardinality(pipeline.worker[k].put)
                  + pipeline.worker[k].task_done + pipeline.worker[k].returned
              = Threads[k]
    /\ \A item \in 1..pipeline.main.n :
           /\ \A f \in {"download", "resize", "upload"} : pipeline.calls[f][item] <= 1
           /\ item <= pipeline.main.put /\ pipeline.main.counter = 0
                  => ItemPlaces(item) = 1
    /\ PipeReturned =>
           /\ pipeline.main.put = pipeline.main.n
           /\ pipeline.main.counter = pipeline.main.n
           /\ \A k \in 1..4 : /\ pipeline.queue[Queues[k]].items = <<>>
                              /\ pipeline.queue[Queues[k]].unfinished = 0
           /\ \A item \in 1..pipeline.main.n :
                  \A f \in {"download", "resize", "upload"} : pipeline.calls[f][item] = 1
           /\ \A k \in Stages : pipeline.worker[k].returned = Threads[k]

\* C23: good_pipeline_example always returns. While it has not returned, the
\* main thread or a worker can take a step, and every step brings the return
\* nearer, so no run goes on for ever or stops short; every item put is in
\* exactly one place until the drain and is handed to each of download,
\* resize and upload at most once; at the return every item has passed each
\* of the three exactly once and has been drained from done_queue,
\* drain_queue has counted as many items as were put, and all twelve workers
\* have returned, so that every thread.join() has returned.
C23_PipelineReturns ==
    /\ []PipeProgress
    /\ [][PipeMeasure' < PipeMeasure]_vars

\* good_pipeline_example has returned after three items went through the
\* pipeline.
C23_Witness ==
    /\ PipeReturned
    /\ pipeline.main.n = 3
    /\ pipeline.main.counter = 3

\* C29: no worker ever calls put on a queue that is already shut down: while a
\* worker holds a result it has yet to put, its out_queue is not shut down,
\* and no put has raised ShutDown; for a worker that holds a result or has
\* put it and not yet called task_done, its in_queue counts an unfinished
\* task, and a queue is shut down only after the queue upstream of it was
\* shut down and all of its tasks were done.
C29_NoPutAfterShutdown ==
    /\ \A k \in Stages :
           /\ pipeline.worker[k].ShutDown = 0
           /\ pipeline.worker[k].put # {} => ~pipeline.queue[Queues[k + 1]].shutdown
           /\ pipeline.queue[Queues[k]].unfinished
                  = Len(pipeline.queue[Queues[k]].items)
                    + Cardinality(pipeline.worker[k].put)
                    + pipeline.worker[k].task_done
    /\ \A k \in 2..4 :
           pipeline.queue[Queues[k]].shutdown
               => /\ pipeline.queue[Queues[k - 1]].shutdown
                  /\ pipeline.queue[Queues[k - 1]].unfinished = 0

\* Two resize workers hold results to put on upload_queue, which is full,
\* after download_queue has been shut down and joined and resize_queue has
\* been shut down.
C29_Witness ==
    /\ pipeline.queue["resize"].shutdown
    /\ Cardinality(pipeline.worker[2].put) = 2
    /\ Full(pipeline.queue["upload"])

\* ------------------------------------------------------------ LifeSpec
\* item_73: the queue-based Game of Life of main. Five StoppableWorker
\* threads take cells from in_queue with get(timeout=1) and put the next
\* state on out_queue; simulate_pipeline puts one item per cell, joins
\* in_queue and collects the results; main then shuts in_queue down and
\* joins the threads. life.worker counts the threads at each position of
\* run, as pipeline.worker does for one stage; stopped counts the threads
\* that left the loop on Empty, returned those that returned on ShutDown.

LifeWorkers == 5

\* The cells of the grid (5 * 9 in the source), scaled down.
MaxCells == 2

\* game_logic_thread(item): the result carries the coordinates of its cell.
game_logic_thread(item) == item

LifeInit ==
    /\ Idle76
    /\ IdleCounter
    /\ pipeline = None
    /\ merge = None
    /\ \E n \in 1..MaxCells :
           life =
               [in_queue |-> Queue(0),
                out_queue |-> Queue(0),
                worker |-> [get |-> 0, put |-> {}, task_done |-> 0,
                            stopped |-> 0, returned |-> 0],
                main |-> [pc |-> "start", n |-> n, started |-> 0, put |-> 0,
                          item_count |-> 0, next_grid |-> {}]]

LifeOthers == <<item76Vars, counterVars, pipeline, merge>>

\* thread = StoppableWorker(...); thread.start(), five times; then main calls
\* simulate_pipeline.
LifeStart ==
    /\ life.main.pc = "start"
    /\ life' =
           [life EXCEPT
              !.worker.get = @ + 1,
              !.main.started = @ + 1,
              !.main.pc = IF life.main.started + 1 < LifeWorkers THEN "start" ELSE "put"]
    /\ UNCHANGED LifeOthers

\* in_queue.put((y, x, state, neighbors)) for the next cell; after the last
\* cell simulate_pipeline goes on to in_queue.join().
LifePut ==
    /\ life.main.pc = "put"
    /\ life' =
           [life EXCEPT
              !.in_queue.items = Append(@, life.main.put + 1),
              !.in_queue.unfinished = @ + 1,
              !.main.put = @ + 1,
              !.main.pc = IF life.main.put + 1 < life.main.n THEN "put" ELSE "join"]
    /\ UNCHANGED LifeOthers

\* in_queue.join() returns: no task is unfinished;
\* item_count = out_queue.qsize().
LifeJoin ==
    /\ life.main.pc = "join"
    /\ life.in_queue.unfinished = 0
    /\ life' =
           [life EXCEPT
              !.main.item_count = Len(life.out_queue.items),
              !.main.pc = "collect"]
    /\ UNCHANGED LifeOthers

\* for _ in range(item_count): y, x, next_state = out_queue.get();
\* next_grid.set(y, x, next_state); after the loop simulate_pipeline returns.
LifeCollect ==
    /\ life.main.pc = "collect"
    /\ IF life.main.item_count > 0
       THEN /\ Len(life.out_queue.items) > 0
            /\ life' =
                   [life EXCEPT
                      !.out_queue.items = Tail(@),
                      !.main.next_grid = @ \union {Head(life.out_queue.items)},
                      !.main.item_count = @ - 1]
       ELSE life' = [life EXCEPT !.main.pc = "shutdown"]
    /\ UNCHANGED LifeOthers

\* in_queue.shutdown()
LifeShutdown ==
    /\ life.main.pc = "shutdown"
    /\ life' = [life EXCEPT !.in_queue.shutdown = TRUE, !.main.pc = "join threads"]
    /\ UNCHANGED LifeOthers

\* for thread in threads: thread.join() comes to its end: every thread has
\* ended.
LifeJoinThreads ==
    /\ life.main.pc = "join threads"
    /\ life.worker.stopped + life.worker.returned = LifeWorkers
    /\ life' = [life EXCEPT !.main.pc = "returned"]
    /\ UNCHANGED LifeOthers

\* item = self.in_queue.get(timeout=1) returns an item;
\* result = self.func(item).
LifeGet ==
    /\ life.worker.get > 0
    /\ Len(life.in_queue.items) > 0
    /\ life' =
           [life EXCEPT
              !.in_queue.items = Tail(@),
              !.worker.get = @ - 1,
              !.worker.put = @ \union {game_logic_thread(Head(life.in_queue.items))}]
    /\ UNCHANGED LifeOthers

\* self.in_queue.get(timeout=1) raises Empty: the queue stayed empty for
\* the second; the thread leaves the loop.
LifeEmpty ==
    /\ life.worker.get > 0
    /\ Len(life.in_queue.items) = 0
    /\ ~life.in_queue.shutdown
    /\ life' = [life EXCEPT !.worker.get = @ - 1, !.worker.stopped = @ + 1]
    /\ UNCHANGED LifeOthers

\* self.in_queue.get(timeout=1) raises ShutDown: the queue is shut down and
\* empty; run returns.
LifeShutDown ==
    /\ life.worker.get > 0
    /\ Len(life.in_queue.items) = 0
    /\ life.in_queue.shutdown
    /\ life' = [life EXCEPT !.worker.get = @ - 1, !.worker.returned = @ + 1]
    /\ UNCHANGED LifeOthers

\* self.out_queue.put(result); out_queue is unbounded and never shut down.
LifeResult ==
    \E result \in life.worker.put :
        /\ life' =
               [life EXCEPT
                  !.out_queue.items = Append(@, result),
                  !.out_queue.unfinished = @ + 1,
                  !.worker.put = @ \ {result},
                  !.worker.task_done = @ + 1]
        /\ UNCHANGED LifeOthers

\* self.in_queue.task_done(), and the thread goes back to get.
LifeTaskDone ==
    /\ life.worker.task_done > 0
    /\ life' =
           [life EXCEPT
              !.in_queue.unfinished = @ - 1,
              !.worker.task_done = @ - 1,
              !.worker.get = @ + 1]
    /\ UNCHANGED LifeOthers

LifeNext ==
    \/ LifeStart \/ LifePut \/ LifeJoin \/ LifeCollect \/ LifeShutdown
    \/ LifeJoinThreads
    \/ LifeGet \/ LifeEmpty \/ LifeShutDown \/ LifeResult \/ LifeTaskDone

LifeSpec == LifeInit /\ [][LifeNext]_vars

\* Some thread of the Game of Life can take a step.
LifeCanStep ==
    \/ life.main.pc \in {"start", "put", "shutdown"}
    \/ life.main.pc = "join" /\ life.in_queue.unfinished = 0
    \/ /\ life.main.pc = "collect"
       /\ life.main.item_count > 0 => Len(life.out_queue.items) > 0
    \/ /\ life.main.pc = "join threads"
       /\ life.worker.stopped + life.worker.returned = LifeWorkers
    \/ life.worker.get > 0
    \/ life.worker.put # {}
    \/ life.worker.task_done > 0

\* C24: the timeout on in_queue.get prevents deadlock: whatever the relative
\* speeds of the threads, main is never left waiting with no thread able to
\* take a step, so that in_queue.join() and the thread.join() calls return.
\* It fails: when all five workers have left their loop on Empty before the
\* last cell was taken, main waits in in_queue.join() for ever.
C24_NoDeadlock ==
    life.main.pc # "returned" => LifeCanStep

\* ------------------------------------------------------------ MergeSpec
\* item_78: one call of run_tasks_simpler, run_tasks or run_fully_async on
\* the three input handles of setup_temp_files. merge.call is the function
\* called; merge.handle[h] is input handle h with its closed flag, its read
\* offset and the length of its file, both in lines; merge.task[h] is the
\* position of the tail_async task of handle h with the line it holds;
\* merge.output is the output file; merge.main is the position of the
\* caller. main passes open handles; closed handles are the inputs for which
\* tail_async ends before its first read.

Handles == 3

Calls == {"run_tasks_simpler", "run_tasks", "run_fully_async"}

MergeInit ==
    /\ Idle76
    /\ IdleCounter
    /\ pipeline = None
    /\ life = None
    /\ \E call \in Calls, closed \in [1..Handles -> BOOLEAN] :
           merge =
               [call |-> call,
                handle |-> [h \in 1..Handles |->
                               [closed |-> closed[h], offset |-> 0, length |-> 1]],
                task |-> [h \in 1..Handles |-> [pc |-> "none", line |-> 0]],
                output |-> <<>>,
                main |-> "call"]

MergeOthers == <<item76Vars, counterVars, pipeline, life>>

\* The call opens the output file (run_fully_async: starts the WriteThread,
\* which opens it) and creates one tail_async task per handle in a TaskGroup.
MergeOpen ==
    /\ merge.main = "call"
    /\ merge' =
           [merge EXCEPT
              !.output = <<>>,
              !.task = [h \in 1..Handles |-> [pc |-> "while", line |-> 0]],
              !.main = "tasks"]
    /\ UNCHANGED MergeOthers

\* while not handle.closed: the task ends when the handle is closed, and
\* goes on to read a line otherwise.
TailWhile(h) ==
    /\ merge.task[h].pc = "while"
    /\ merge' =
           [merge EXCEPT
              !.task[h].pc = IF merge.handle[h].closed THEN "done" ELSE "readline"]
    /\ UNCHANGED MergeOthers

\* line = await loop.run_in_executor(None, readline, handle): NoNewData when
\* the offset is at the end of the file, the next line otherwise.
TailReadline(h) ==
    /\ merge.task[h].pc = "readline"
    /\ IF merge.handle[h].length = merge.handle[h].offset
       THEN merge' = [merge EXCEPT !.task[h].pc = "sleep"]
       ELSE merge' =
                [merge EXCEPT
                   !.handle[h].offset = @ + 1,
                   !.task[h] = [pc |-> "write", line |-> h]]
    /\ UNCHANGED MergeOthers

\* except NoNewData: await asyncio.sleep(interval) is over.
TailSleep(h) ==
    /\ merge.task[h].pc = "sleep"
    /\ merge' = [merge EXCEPT !.task[h].pc = "while"]
    /\ UNCHANGED MergeOthers

\* await write_func(line): run_tasks_simpler writes in the coroutine;
\* run_tasks hands output.write to the executor and run_fully_async hands
\* real_write to the loop of the WriteThread, and the task waits for it.
TailWrite(h) ==
    /\ merge.task[h].pc = "write"
    /\ IF merge.call = "run_tasks_simpler"
       THEN merge' =
                [merge EXCEPT
                   !.output = Append(@, merge.task[h].line),
                   !.task[h] = [pc |-> "while", line |-> 0]]
       ELSE merge' = [merge EXCEPT !.task[h].pc = "await write"]
    /\ UNCHANGED MergeOthers

\* The executor, or the WriteThread, has written the line; the task resumes.
WriteDone(h) ==
    /\ merge.task[h].pc = "await write"
    /\ merge' =
           [merge EXCEPT
              !.output = Append(@, merge.task[h].line),
              !.task[h] = [pc |-> "while", line |-> 0]]
    /\ UNCHANGED MergeOthers

\* The TaskGroup is left: every task has finished; the output is closed
\* (run_fully_async: the WriteThread is stopped) and the call returns to
\* main, which goes on to confirm_merge.
MergeReturn ==
    /\ merge.main = "tasks"
    /\ \A h \in 1..Handles : merge.task[h].pc = "done"
    /\ merge' = [merge EXCEPT !.main = "confirm_merge"]
    /\ UNCHANGED MergeOthers

TailStep(h) ==
    \/ TailWhile(h) \/ TailReadline(h) \/ TailSleep(h) \/ TailWrite(h)
    \/ WriteDone(h)

MergeNext ==
    \/ MergeOpen
    \/ MergeReturn
    \/ \E h \in 1..Handles : TailStep(h)

\* The event loop runs every task that is ready, the executor and the
\* WriteThread finish what they were handed, and every sleep ends.
MergeSpec ==
    /\ MergeInit
    /\ [][MergeNext]_vars
    /\ WF_vars(MergeOpen)
    /\ WF_vars(MergeReturn)
    /\ \A h \in 1..Handles : WF_vars(TailStep(h))

MergeOpenHandles ==
    /\ merge.main = "call"
    /\ \A h \in 1..Handles : ~merge.handle[h].closed

\* C25: each call of run_tasks_simpler, run_tasks and run_fully_async on the
\* open input handles eventually returns, every tail_async task having
\* finished, so that the confirm_merge after it is reached. It fails: the
\* handles stay open, and every task goes on polling its handle.
C25_CallReturns ==
    MergeOpenHandles ~> merge.main = "confirm_merge"

====
